---- MODULE Spec2Model ----
(***************************************************************************)
(* CivicSense backend: the Issue collection, the User counters and the     *)
(* issue routes (create, verify, PATCH, resolve, comment, delete) of       *)
(* backend/src/routes/issues.js, together with the Issue model's pre-save  *)
(* hook and updateStatus method.                                           *)
(*                                                                         *)
(* A document is saved the way Mongoose saves a loaded document: only the  *)
(* paths the handler changed are written, an array the handler pushed to   *)
(* is written as a $push of the pushed elements, and no version condition  *)
(* is put on the update.  Spec runs every handler to completion; SpecConc  *)
(* splits the verify handler at its awaits.                                *)
(***************************************************************************)
EXTENDS Integers, Sequences, FiniteSets, TLC

VARIABLES issues, users, allocated, now, last, reqs, probe

vars == <<issues, users, allocated, now, last, reqs, probe>>

----------------------------------------------------------------------------
(* Bounds *)

MaxUpdates == 1
MaxTime == 1
\* the most words of a description whose severity is calculated on its own
MaxWords == 3
\* the largest limit and the last page asked of GET /issues
MaxLimit == 2
MaxPage == 3

----------------------------------------------------------------------------
(* Values *)

Absent == "absent"
Null == "null"
BadId == "not-an-object-id"

Users == {"u1", "u2", "u3", "u4", "u5"}

Reqs == {"r1", "r2"}

IssueIds == {"i1"}

RoleOf(u) ==
  CASE u = "u4" -> "authority"
    [] u = "u5" -> "admin"
    [] OTHER -> "user"

StatusEnum == {"pending", "verified", "under_review", "in_progress",
               "resolved", "rejected", "duplicate"}

VerifyThreshold == 3

PriorityBoostCapHalves == 6

\* request inputs and callers
Reporters == {"u1"}
PatchCallers == {"u4"}
ResolveCallers == {"u2", "u5"}
CommentCallers == {"u2"}
DeleteCallers == {"u1", "u4", "u5"}
PatchStatuses == {Absent, "in_progress", "resolved", "bogus"}
PatchAssignees == {Absent, "u4", BadId}
PatchNotes == {Absent}
ResolveNotes == {"note"}
ProofImages == {"proof.jpg"}
ImageUrls == {Absent, "image.jpg"}
CommentTexts == {"text"}

\* coordinates are whole numbers of 1/CoordScale degree
CoordScale == 10000
MaxLatitude == 90 * CoordScale
MaxLongitude == 180 * CoordScale

\* a description is a sequence of words, written with a space between them
Words == {"Large", "dangerous", "pothole", "causing", "accidents", "minor",
          "issue", "URGENT"}

\* the number of characters of a word
WordLength(w) ==
  CASE w = "Large" -> 5
    [] w = "dangerous" -> 9
    [] w = "pothole" -> 7
    [] w = "causing" -> 7
    [] w = "accidents" -> 9
    [] w = "minor" -> 5
    [] w = "issue" -> 5
    [] w = "URGENT" -> 6

RECURSIVE TextLength(_)
TextLength(d) ==
  IF d = << >> THEN 0
  ELSE WordLength(Head(d)) + (IF Len(d) > 1 THEN 1 ELSE 0) + TextLength(Tail(d))

\* String.prototype.toLowerCase, word by word
toLowerCase(d) ==
  [k \in 1..Len(d) |->
     CASE d[k] = "Large" -> "large"
       [] d[k] = "URGENT" -> "urgent"
       [] OTHER -> d[k]]

\* the keywords of severityKeywords that are substrings of a lower-case word
KeywordsIn(w) ==
  CASE w = "large" -> {"large"}
    [] w = "dangerous" -> {"danger", "dangerous"}
    [] w = "accidents" -> {"accident"}
    [] w = "minor" -> {"minor"}
    [] w = "issue" -> {"issue"}
    [] w = "urgent" -> {"urgent"}
    [] OTHER -> {}

\* String.prototype.includes
includes(d, keyword) == \E k \in 1..Len(d) : keyword \in KeywordsIn(d[k])

ExampleDescription == <<"Large", "dangerous", "pothole", "causing", "accidents">>

\* isLength({ min: 10, max: 500 })
MinDescription == 10
MaxDescription == 500

\* a request body of POST /issues
Body(imageUrl, category, description, latitude, longitude) ==
  [imageUrl |-> imageUrl, category |-> category, description |-> description,
   latitude |-> latitude, longitude |-> longitude]

\* the bodies of the status, verification and concurrency models: one that is
\* accepted, one without an image, one whose description is too short
CreateBodies ==
  {Body(img, "pothole", d, 0, 0) :
     img \in ImageUrls, d \in {ExampleDescription, <<"minor">>}}

\* the template string `Status changed to ${status}`
StatusChangedTo(status) ==
  CASE status = "pending" -> "Status changed to pending"
    [] status = "verified" -> "Status changed to verified"
    [] status = "under_review" -> "Status changed to under_review"
    [] status = "in_progress" -> "Status changed to in_progress"
    [] status = "resolved" -> "Status changed to resolved"
    [] status = "rejected" -> "Status changed to rejected"
    [] status = "duplicate" -> "Status changed to duplicate"
    [] OTHER -> "Status changed to bogus"

Min(a, b) == IF a < b THEN a ELSE b

NoTime == 0 - 1

NoResolution ==
  [resolvedAt |-> NoTime, resolvedBy |-> Absent,
   proofImage |-> Absent, notes |-> Absent]

\* the response to the most recent call
NoCall == [op |-> "none", code |-> 0, message |-> Absent, status |-> Absent]

Call(op, code, message) ==
  [op |-> op, code |-> code, message |-> message, status |-> Absent]

\* the response to a PATCH, with the status the request carried
PatchCall(code, message, status) ==
  [op |-> "patch", code |-> code, message |-> message, status |-> status]

----------------------------------------------------------------------------
(* config/departments.js and config/severity.js *)

Categories == {"pothole", "garbage", "water_leakage", "streetlight", "drainage",
               "road_damage", "illegal_parking", "noise", "air_pollution",
               "others"}

categoryToDepartment ==
  [c \in Categories |->
     CASE c \in {"pothole", "road_damage"} -> "roads"
       [] c = "garbage" -> "sanitation"
       [] c \in {"water_leakage", "drainage"} -> "water"
       [] c = "streetlight" -> "electricity"
       [] OTHER -> "general"]

\* getDepartmentForCategory falling back to the first department
getDepartmentForCategory_FirstDepartment(category) ==
  IF category \in DOMAIN categoryToDepartment
  THEN categoryToDepartment[category]
  ELSE "roads"

getDepartmentForCategory(category) ==
  IF category \in DOMAIN categoryToDepartment
  THEN categoryToDepartment[category]
  ELSE "general"

categorySeverity ==
  [c \in Categories |->
     CASE c = "pothole" -> [base |-> "high", score |-> 8]
       [] c = "road_damage" -> [base |-> "high", score |-> 7]
       [] c = "water_leakage" -> [base |-> "high", score |-> 8]
       [] c = "drainage" -> [base |-> "medium", score |-> 6]
       [] c = "garbage" -> [base |-> "medium", score |-> 5]
       [] c = "streetlight" -> [base |-> "low", score |-> 4]
       [] c = "illegal_parking" -> [base |-> "low", score |-> 3]
       [] c = "noise" -> [base |-> "low", score |-> 3]
       [] c = "air_pollution" -> [base |-> "medium", score |-> 5]
       [] c = "others" -> [base |-> "medium", score |-> 5]]

severityKeywords ==
  [critical |-> {"emergency", "accident", "danger", "dangerous", "urgent",
                 "life-threatening", "flooding", "collapse"},
   high |-> {"major", "broken", "blocked", "severe", "large", "overflowing",
             "hazard"},
   medium |-> {"moderate", "damaged", "needs repair", "issue"},
   low |-> {"minor", "small", "slight"}]

severityLevels ==
  [critical |-> [min |-> 9, max |-> 10],
   high |-> [min |-> 7, max |-> 8],
   medium |-> [min |-> 4, max |-> 6],
   low |-> [min |-> 1, max |-> 3]]

Max(a, b) == IF a > b THEN a ELSE b

\* the keyword branch of calculateSeverity taken for a description
keywordClass(description) ==
  LET lowerDesc == toLowerCase(description)
      some(class) == \E keyword \in severityKeywords[class] :
                        includes(lowerDesc, keyword)
  IN IF some("critical") THEN "critical"
     ELSE IF some("high") THEN "high"
     ELSE IF some("low") THEN "low"
     ELSE "none"

levelOfScore(score) ==
  IF score >= severityLevels.critical.min THEN "critical"
  ELSE IF score >= severityLevels.high.min THEN "high"
  ELSE IF score >= severityLevels.medium.min THEN "medium"
  ELSE "low"

\* calculateSeverity without its last step, the level taken from the score
calculateSeverity_KeywordLevel(category, description) ==
  LET baseSeverity == IF category \in DOMAIN categorySeverity
                      THEN categorySeverity[category]
                      ELSE categorySeverity["others"]
      class == keywordClass(description)
  IN CASE class = "critical" ->
            [severity |-> "critical",
             severityScore |-> Min(10, baseSeverity.score + 2)]
       [] class = "high" ->
            [severity |-> IF baseSeverity.base \in {"low", "medium"}
                          THEN "high" ELSE baseSeverity.base,
             severityScore |-> Min(10, baseSeverity.score + 1)]
       [] class = "low" ->
            [severity |-> IF baseSeverity.base \in {"high", "medium"}
                          THEN "low" ELSE baseSeverity.base,
             severityScore |-> Max(1, baseSeverity.score - 1)]
       [] OTHER ->
            [severity |-> baseSeverity.base,
             severityScore |-> baseSeverity.score]

\* calculateSeverity testing the high keywords before the critical ones
calculateSeverity_HighFirst(category, description) ==
  LET baseSeverity == IF category \in DOMAIN categorySeverity
                      THEN categorySeverity[category]
                      ELSE categorySeverity["others"]
      lowerDesc == toLowerCase(description)
      some(class) == \E keyword \in severityKeywords[class] :
                        includes(lowerDesc, keyword)
      score == IF some("high") THEN Min(10, baseSeverity.score + 1)
               ELSE IF some("critical") THEN Min(10, baseSeverity.score + 2)
               ELSE IF some("low") THEN Max(1, baseSeverity.score - 1)
               ELSE baseSeverity.score
  IN [severity |-> levelOfScore(score), severityScore |-> score]

calculateSeverity(category, description) ==
  LET baseSeverity == IF category \in DOMAIN categorySeverity
                      THEN categorySeverity[category]
                      ELSE categorySeverity["others"]
      class == keywordClass(description)
      score == CASE class = "critical" -> Min(10, baseSeverity.score + 2)
                 [] class = "high" -> Min(10, baseSeverity.score + 1)
                 [] class = "low" -> Max(1, baseSeverity.score - 1)
                 [] OTHER -> baseSeverity.score
  IN [severity |-> levelOfScore(score), severityScore |-> score]

\* calculateSeverity(category), the description left to its default ''
calculateSeverityDefault(category) == calculateSeverity(category, << >>)

----------------------------------------------------------------------------
(* The Issue model *)

CommunityNote == "Community verified (3+ verifications)"

Entry(status, t, by, note) ==
  [status |-> status, timestamp |-> t, updatedBy |-> by, note |-> note]

\* new Issue({...}) of the create route, with the schema defaults
NewIssue(u, body, t) ==
  [reportedBy |-> u,
   createdAt |-> t,
   description |-> body.description,
   category |-> IF body.category = Absent THEN "others" ELSE body.category,
   severity |-> calculateSeverity(body.category, body.description).severity,
   severityScore |->
     calculateSeverity(body.category, body.description).severityScore,
   assignedDepartment |-> getDepartmentForCategory(body.category),
   latitude |-> body.latitude,
   longitude |-> body.longitude,
   status |-> "pending",
   verifications |-> 0,
   verifiedBy |-> << >>,
   isAuthentic |-> FALSE,
   assignedTo |-> Null,
   resolution |-> NoResolution,
   timeline |-> << Entry("pending", t, u, "Issue reported") >>,
   priorityBoost |-> 0,
   comments |-> 0]

\* preSave recomputing isAuthentic as verifications > 3
preSave_RecomputeStrict(doc, t) ==
  [doc EXCEPT !.isAuthentic = doc.verifications > VerifyThreshold,
              !.priorityBoost = Min(doc.verifications, PriorityBoostCapHalves)]

\* preSave without the !this.isAuthentic test
preSave_NoAuthenticTest(doc, t) ==
  LET d1 == IF doc.verifications >= VerifyThreshold
            THEN [doc EXCEPT
                    !.isAuthentic = TRUE,
                    !.timeline = Append(@, Entry("verified", t, Absent,
                                                 CommunityNote))]
            ELSE doc
  IN [d1 EXCEPT !.priorityBoost = Min(d1.verifications, PriorityBoostCapHalves)]

\* issueSchema.pre('save')
preSave(doc, t) ==
  LET d1 == IF doc.verifications >= VerifyThreshold /\ ~doc.isAuthentic
            THEN [doc EXCEPT
                    !.isAuthentic = TRUE,
                    !.timeline = Append(@, Entry("verified", t, Absent,
                                                 CommunityNote))]
            ELSE doc
  IN [d1 EXCEPT !.priorityBoost = Min(d1.verifications, PriorityBoostCapHalves)]

\* schema validation run by save(): the status enum and the ObjectId cast
validate(doc) ==
  /\ doc.status \in StatusEnum
  /\ doc.assignedTo \in Users \cup {Null}

IsPrefix(a, b) == Len(a) <= Len(b) /\ SubSeq(b, 1, Len(a)) = a

\* the update save() sends for a loaded document: $set of the changed paths;
\* an array the handler only pushed to is sent as a $push of the pushed
\* elements, an array changed in any other way as a $set of the whole array
Pushed(orig, local) == SubSeq(local, Len(orig) + 1, Len(local))

arrayUpdate(stored, orig, local) ==
  IF IsPrefix(orig, local) THEN stored \o Pushed(orig, local) ELSE local

saveDelta(stored, orig, local) ==
  [reportedBy |-> stored.reportedBy,
   createdAt |-> stored.createdAt,
   description |-> stored.description,
   category |-> stored.category,
   severity |-> stored.severity,
   severityScore |-> stored.severityScore,
   assignedDepartment |-> stored.assignedDepartment,
   latitude |-> stored.latitude,
   longitude |-> stored.longitude,
   status |-> IF local.status # orig.status THEN local.status
              ELSE stored.status,
   verifications |-> IF local.verifications # orig.verifications
                     THEN local.verifications ELSE stored.verifications,
   verifiedBy |-> arrayUpdate(stored.verifiedBy, orig.verifiedBy,
                             local.verifiedBy),
   isAuthentic |-> IF local.isAuthentic # orig.isAuthentic
                   THEN local.isAuthentic ELSE stored.isAuthentic,
   assignedTo |-> IF local.assignedTo # orig.assignedTo THEN local.assignedTo
                  ELSE stored.assignedTo,
   resolution |-> IF local.resolution # orig.resolution THEN local.resolution
                  ELSE stored.resolution,
   timeline |-> arrayUpdate(stored.timeline, orig.timeline, local.timeline),
   priorityBoost |-> IF local.priorityBoost # orig.priorityBoost
                     THEN local.priorityBoost ELSE stored.priorityBoost,
   comments |-> stored.comments]

\* document.save(): validation, the pre-save hook, then the update.
\* The result is [ok, local, stored]: a failed save throws and writes nothing.
save(stored, orig, local, t) ==
  IF validate(local)
  THEN LET hooked == preSave(local, t)
       IN [ok |-> TRUE, local |-> hooked,
           stored |-> saveDelta(stored, orig, hooked)]
  ELSE [ok |-> FALSE, local |-> local, stored |-> stored]

\* updateStatus without its block for 'resolved'
updateStatus_TimelineOnly(doc, newStatus, userId, note, t) ==
  [doc EXCEPT !.status = newStatus,
              !.timeline = Append(@, Entry(newStatus, t, userId, note))]

\* updateStatus pushing the entry before it assigns the status
updateStatus_StaleStatus(doc, newStatus, userId, note, t) ==
  LET d1 == [doc EXCEPT
               !.status = newStatus,
               !.timeline = Append(@, Entry(doc.status, t, userId, note))]
  IN IF newStatus = "resolved"
     THEN [d1 EXCEPT !.resolution = [@ EXCEPT !.resolvedAt = t,
                                               !.resolvedBy = userId]]
     ELSE d1

\* issueSchema.methods.updateStatus, up to its save()
updateStatus(doc, newStatus, userId, note, t) ==
  LET d1 == [doc EXCEPT
               !.status = newStatus,
               !.timeline = Append(@, Entry(newStatus, t, userId, note))]
  IN IF newStatus = "resolved"
     THEN [d1 EXCEPT !.resolution = [@ EXCEPT !.resolvedAt = t,
                                               !.resolvedBy = userId]]
     ELSE d1

----------------------------------------------------------------------------
(* The verify handler's synchronous block (issues.js 393-425) *)

\* isReporter comparing an ObjectId with a string by identity
isReporter_IdentityCompare(doc, userId) == FALSE

isReporter(doc, userId) == doc.reportedBy = userId

\* alreadyVerified looking at the latest verifier only
alreadyVerified_LatestOnly(doc, userId) ==
  /\ Len(doc.verifiedBy) > 0
  /\ doc.verifiedBy[Len(doc.verifiedBy)] = userId

alreadyVerified(doc, userId) ==
  \E k \in 1..Len(doc.verifiedBy) : doc.verifiedBy[k] = userId

\* pushVerification taking the length before the push
pushVerification_StaleLength(doc, userId) ==
  [doc EXCEPT !.verifiedBy = Append(@, userId),
              !.verifications = Len(doc.verifiedBy)]

pushVerification(doc, userId) ==
  LET vb == Append(doc.verifiedBy, userId)
  IN [doc EXCEPT !.verifiedBy = vb, !.verifications = Len(vb)]

\* autoAuthentic starting the timeline afresh before its push
autoAuthentic_FreshTimeline(doc, userId, t) ==
  IF doc.verifications >= VerifyThreshold /\ ~doc.isAuthentic
  THEN [doc EXCEPT
          !.isAuthentic = TRUE,
          !.status = "verified",
          !.timeline = << Entry("verified", t, userId, CommunityNote) >>]
  ELSE doc

\* autoAuthentic doing what the pre-save hook does: the entry without the
\* status
autoAuthentic_EntryOnly(doc, userId, t) ==
  IF doc.verifications >= VerifyThreshold /\ ~doc.isAuthentic
  THEN [doc EXCEPT
          !.isAuthentic = TRUE,
          !.timeline = Append(@, Entry("verified", t, userId, CommunityNote))]
  ELSE doc

autoAuthentic(doc, userId, t) ==
  IF doc.verifications >= VerifyThreshold /\ ~doc.isAuthentic
  THEN [doc EXCEPT
          !.isAuthentic = TRUE,
          !.status = "verified",
          !.timeline = Append(@, Entry("verified", t, userId, CommunityNote))]
  ELSE doc

verifyLocal(doc, userId, t) == autoAuthentic(pushVerification(doc, userId), userId, t)

\* User.findByIdAndUpdate(userId, {$inc: {issuesVerified: 1, trustScore: 1}})
incVerified(us, userId) ==
  [us EXCEPT ![userId].issuesVerified = @ + 1, ![userId].trustScore = @ + 1]

incReported(us, userId, d) ==
  [us EXCEPT ![userId].issuesReported = @ + d]

\* middleware requireAuthority
requireAuthority(u) == RoleOf(u) \in {"authority", "admin"}

----------------------------------------------------------------------------
(* Initial state: an empty Issue collection, users with counter defaults *)

IdleReq == [pc |-> "idle", user |-> Absent, issue |-> Absent,
            orig |-> << >>, local |-> << >>]

\* no read-only request answered yet
NoProbe == [op |-> "none"]

Init ==
  /\ issues = << >>
  /\ users = [u \in Users |->
                [role |-> RoleOf(u), isActive |-> TRUE, issuesReported |-> 0,
                 issuesVerified |-> 0, trustScore |-> 0]]
  /\ allocated = {}
  /\ now = 0
  /\ last = NoCall
  /\ reqs = [r \in Reqs |-> IdleReq]
  /\ probe = NoProbe

Exists(iss, i) == i \in DOMAIN iss

Put(iss, i, doc) ==
  [j \in (DOMAIN iss) \cup {i} |-> IF j = i THEN doc ELSE iss[j]]

Remove(iss, i) == [j \in (DOMAIN iss) \ {i} |-> iss[j]]

Result(iss, us, resp) == [issues |-> iss, users |-> us, resp |-> resp]

----------------------------------------------------------------------------
(* The route handlers, as functions of the stored state and the request *)

\* createIssueValidation: no validation error
createIssueValidation(body) ==
  /\ TextLength(body.description) >= MinDescription
  /\ TextLength(body.description) <= MaxDescription
  /\ body.latitude >= 0 - MaxLatitude /\ body.latitude <= MaxLatitude
  /\ body.longitude >= 0 - MaxLongitude /\ body.longitude <= MaxLongitude
  /\ body.category \in Categories \cup {Absent}

\* createHandler without the $inc of issuesReported
createHandler_NoCount(iss, us, i, u, body, t) ==
  IF ~createIssueValidation(body)
  THEN Result(iss, us, Call("create", 400, "Validation failed"))
  ELSE IF body.imageUrl = Absent
  THEN Result(iss, us, Call("create", 400, "Issue image is required"))
  ELSE Result(Put(iss, i, preSave(NewIssue(u, body, t), t)),
              us,
              Call("create", 201, "Issue reported successfully"))

\* POST /issues
createHandler(iss, us, i, u, body, t) ==
  IF ~createIssueValidation(body)
  THEN Result(iss, us, Call("create", 400, "Validation failed"))
  ELSE IF body.imageUrl = Absent
  THEN Result(iss, us, Call("create", 400, "Issue image is required"))
  ELSE Result(Put(iss, i, preSave(NewIssue(u, body, t), t)),
              incReported(us, u, 1),
              Call("create", 201, "Issue reported successfully"))

\* POST /issues/:id/verify
verifyHandler(iss, us, i, u, t) ==
  IF ~Exists(iss, i)
  THEN Result(iss, us, Call("verify", 404, "Issue not found"))
  ELSE IF isReporter(iss[i], u)
  THEN Result(iss, us, Call("verify", 400, "You cannot verify your own issue"))
  ELSE IF alreadyVerified(iss[i], u)
  THEN Result(iss, us, Call("verify", 400, "You have already verified this issue"))
  ELSE LET s == save(iss[i], iss[i], verifyLocal(iss[i], u, t), t)
       IN IF s.ok
          THEN Result(Put(iss, i, s.stored), incVerified(us, u),
                      Call("verify", 200, "Issue verified successfully"))
          ELSE Result(iss, us, Call("verify", 500, "Failed to verify issue"))

\* patchApplies without the test against the current status
patchApplies_AnyStatus(doc, status) == status # Absent

\* PATCH /issues/:id
patchApplies(doc, status) == status # Absent /\ status # doc.status

patchHandler(iss, us, i, u, status, assignedTo, note, t) ==
  IF ~requireAuthority(u)
  THEN Result(iss, us, PatchCall(403, "Forbidden", status))
  ELSE IF ~Exists(iss, i)
  THEN Result(iss, us, PatchCall(404, "Issue not found", status))
  ELSE
    LET doc0 == iss[i]
        n == IF note = Absent THEN StatusChangedTo(status) ELSE note
        s1 == IF patchApplies(doc0, status)
              THEN save(doc0, doc0, updateStatus(doc0, status, u, n, t), t)
              ELSE [ok |-> TRUE, local |-> doc0, stored |-> doc0]
        s2 == IF s1.ok /\ assignedTo # Absent
              THEN save(s1.stored, s1.local,
                        [s1.local EXCEPT !.assignedTo = assignedTo], t)
              ELSE s1
    IN Result(Put(iss, i, s2.stored), us,
              IF s2.ok THEN PatchCall(200, "Issue updated", status)
              ELSE PatchCall(500, "Failed to update issue", status))

\* POST /issues/:id/resolve
resolveHandler(iss, us, i, u, notes, proofImage, t) ==
  IF ~requireAuthority(u)
  THEN Result(iss, us, Call("resolve", 403, "Forbidden"))
  ELSE IF ~Exists(iss, i)
  THEN Result(iss, us, Call("resolve", 404, "Issue not found"))
  ELSE
    LET doc0 == iss[i]
        d1 == [doc0 EXCEPT !.resolution =
                 [resolvedAt |-> t, resolvedBy |-> u,
                  proofImage |-> proofImage, notes |-> notes]]
        n == IF notes = Absent THEN "Issue resolved" ELSE notes
        s == save(doc0, doc0, updateStatus(d1, "resolved", u, n, t), t)
    IN Result(Put(iss, i, s.stored), us,
              IF s.ok THEN Call("resolve", 200, "Issue resolved")
              ELSE Call("resolve", 500, "Failed to resolve issue"))

\* POST /issues/:id/comment
commentHandler(iss, us, i, u, text) ==
  IF text = ""
  THEN Result(iss, us, Call("comment", 400, "Comment text is required"))
  ELSE IF ~Exists(iss, i)
  THEN Result(iss, us, Call("comment", 404, "Issue not found"))
  ELSE Result([iss EXCEPT ![i].comments = @ + 1], us,
              Call("comment", 200, "Comment added"))

\* deleteHandler letting every caller that passes requireAuthority override
deleteHandler_AuthorityOverrides(iss, us, i, u) ==
  IF ~Exists(iss, i)
  THEN Result(iss, us, Call("delete", 404, "Issue not found"))
  ELSE LET isOwner == iss[i].reportedBy = u
           isAdmin == us[u].role \in {"admin", "authority"}
       IN IF ~isOwner /\ ~isAdmin
          THEN Result(iss, us,
                      Call("delete", 403, "Not authorized to delete this issue"))
          ELSE Result(Remove(iss, i),
                      IF isOwner THEN incReported(us, u, -1) ELSE us,
                      Call("delete", 200, "Issue deleted"))

\* DELETE /issues/:id
deleteHandler(iss, us, i, u) ==
  IF ~Exists(iss, i)
  THEN Result(iss, us, Call("delete", 404, "Issue not found"))
  ELSE LET isOwner == iss[i].reportedBy = u
           isAdmin == us[u].role = "admin"
       IN IF ~isOwner /\ ~isAdmin
          THEN Result(iss, us,
                      Call("delete", 403, "Not authorized to delete this issue"))
          ELSE Result(Remove(iss, i),
                      IF isOwner THEN incReported(us, u, -1) ELSE us,
                      Call("delete", 200, "Issue deleted"))

----------------------------------------------------------------------------
(* Actions: one request, run to completion *)

\* the updates an issue has accepted: the timeline entries appended by
\* updateStatus (all but the first entry and the community entry) and the
\* comments
Updates(doc) ==
  Cardinality({k \in 2..Len(doc.timeline) :
                 doc.timeline[k].note # CommunityNote}) + doc.comments

Respond(r) ==
  /\ issues' = r.issues
  /\ users' = r.users
  /\ last' = r.resp

Tick ==
  /\ now < MaxTime
  /\ now' = now + 1
  /\ UNCHANGED <<issues, users, allocated, last, reqs, probe>>

Create(i, u, body) ==
  /\ i \notin allocated
  /\ LET r == createHandler(issues, users, i, u, body, now)
     IN /\ Respond(r)
        /\ allocated' = IF r.resp.code = 201 THEN allocated \cup {i} ELSE allocated
  /\ UNCHANGED <<now, reqs, probe>>

Verify(i, u) ==
  /\ Respond(verifyHandler(issues, users, i, u, now))
  /\ UNCHANGED <<allocated, now, reqs, probe>>

Patch(i, u, status, assignedTo, note, cap) ==
  /\ (Exists(issues, i) /\ patchApplies(issues[i], status))
        => Updates(issues[i]) < cap
  /\ Respond(patchHandler(issues, users, i, u, status, assignedTo, note, now))
  /\ UNCHANGED <<allocated, now, reqs, probe>>

Resolve(i, u, notes, proofImage, cap) ==
  /\ Exists(issues, i) => Updates(issues[i]) < cap
  /\ Respond(resolveHandler(issues, users, i, u, notes, proofImage, now))
  /\ UNCHANGED <<allocated, now, reqs, probe>>

Comment(i, u, text) ==
  /\ Exists(issues, i) => Updates(issues[i]) < MaxUpdates
  /\ Respond(commentHandler(issues, users, i, u, text))
  /\ UNCHANGED <<allocated, now, reqs, probe>>

Delete(i, u) ==
  /\ Respond(deleteHandler(issues, users, i, u))
  /\ UNCHANGED <<allocated, now, reqs, probe>>

Next ==
  \/ Tick
  \/ \E i \in IssueIds, u \in Reporters, body \in CreateBodies :
        Create(i, u, body)
  \/ \E i \in IssueIds, u \in Users : Verify(i, u)
  \/ \E i \in IssueIds, u \in PatchCallers, st \in PatchStatuses,
        a \in PatchAssignees, n \in PatchNotes :
        Patch(i, u, st, a, n, MaxUpdates)
  \/ \E i \in IssueIds, u \in ResolveCallers, n \in ResolveNotes,
        p \in ProofImages : Resolve(i, u, n, p, MaxUpdates)
  \/ \E i \in IssueIds, u \in CommentCallers, x \in CommentTexts :
        Comment(i, u, x)
  \/ \E i \in IssueIds, u \in DeleteCallers : Delete(i, u)

Spec == Init /\ [][Next]_vars

----------------------------------------------------------------------------
(* Status updates alone, one update deeper *)

NextStatus ==
  \/ Tick
  \/ \E i \in IssueIds, u \in Reporters, body \in CreateBodies :
        Create(i, u, body)
  \/ \E i \in IssueIds, u \in PatchCallers, st \in PatchStatuses,
        a \in PatchAssignees, n \in PatchNotes :
        Patch(i, u, st, a, n, MaxUpdates + 1)
  \/ \E i \in IssueIds, u \in ResolveCallers, n \in ResolveNotes,
        p \in ProofImages : Resolve(i, u, n, p, MaxUpdates + 1)

SpecStatus == Init /\ [][NextStatus]_vars

----------------------------------------------------------------------------
(* Concurrent verify requests: the handler split at its awaits.            *)
(* findById, then the synchronous block up to save() (checks, push, the    *)
(* threshold block, the pre-save hook), then the update reaching the       *)
(* store, then the $inc of the user's counters.                            *)

Idle(r) == reqs[r].pc = "idle"

\* await Issue.findById, and the synchronous block that follows it
VerifyRead(r, i, u) ==
  /\ Idle(r)
  /\ IF ~Exists(issues, i)
     THEN /\ last' = Call("verify", 404, "Issue not found")
          /\ UNCHANGED reqs
     ELSE IF isReporter(issues[i], u)
     THEN /\ last' = Call("verify", 400, "You cannot verify your own issue")
          /\ UNCHANGED reqs
     ELSE IF alreadyVerified(issues[i], u)
     THEN /\ last' = Call("verify", 400, "You have already verified this issue")
          /\ UNCHANGED reqs
     ELSE LET local == verifyLocal(issues[i], u, now)
          IN IF validate(local)
             THEN /\ reqs' = [reqs EXCEPT ![r] =
                                [pc |-> "saving", user |-> u, issue |-> i,
                                 orig |-> issues[i],
                                 local |-> preSave(local, now)]]
                  /\ UNCHANGED last
             ELSE /\ last' = Call("verify", 500, "Failed to verify issue")
                  /\ UNCHANGED reqs
  /\ UNCHANGED <<issues, users, allocated, now, probe>>

\* the update of issue.save() reaches the store
VerifySave(r) ==
  /\ reqs[r].pc = "saving"
  /\ LET i == reqs[r].issue
     IN IF Exists(issues, i)
        THEN /\ issues' = Put(issues, i,
                              saveDelta(issues[i], reqs[r].orig, reqs[r].local))
             /\ reqs' = [reqs EXCEPT ![r].pc = "saved"]
             /\ UNCHANGED last
        ELSE /\ last' = Call("verify", 500, "Failed to verify issue")
             /\ reqs' = [reqs EXCEPT ![r] = IdleReq]
             /\ UNCHANGED issues
  /\ UNCHANGED <<users, allocated, now, probe>>

\* await User.findByIdAndUpdate, then the response
VerifyCount(r) ==
  /\ reqs[r].pc = "saved"
  /\ users' = incVerified(users, reqs[r].user)
  /\ last' = Call("verify", 200, "Issue verified successfully")
  /\ reqs' = [reqs EXCEPT ![r] = IdleReq]
  /\ UNCHANGED <<issues, allocated, now, probe>>

NextConc ==
  \/ \E i \in IssueIds, u \in Reporters, body \in CreateBodies :
        Create(i, u, body)
  \/ \E r \in Reqs, i \in IssueIds, u \in Users : VerifyRead(r, i, u)
  \/ \E r \in Reqs : VerifySave(r)
  \/ \E r \in Reqs : VerifyCount(r)

SpecConc == Init /\ [][NextConc]_vars

----------------------------------------------------------------------------
(* Intake: issues of every category, then verified, updated, commented on  *)
(* and deleted                                                            *)

IntakeDescriptions == {ExampleDescription, <<"minor", "issue">>}

IntakeBodies ==
  {Body("image.jpg", c, d, 0, 0) :
     c \in Categories \cup {Absent, "unknown"}, d \in IntakeDescriptions}
  \cup {Body(Absent, "garbage", ExampleDescription, 0, 0)}

IntakeVerifiers == {"u1", "u2", "u3", "u4"}

NextIntake ==
  \/ \E i \in IssueIds, u \in Reporters, body \in IntakeBodies :
        Create(i, u, body)
  \/ \E i \in IssueIds, u \in IntakeVerifiers : Verify(i, u)
  \/ \E i \in IssueIds, u \in PatchCallers, st \in {"in_progress", "resolved"},
        a \in {Absent, "u4"} : Patch(i, u, st, a, Absent, MaxUpdates)
  \/ \E i \in IssueIds, u \in {"u5"}, n \in ResolveNotes, p \in ProofImages :
        Resolve(i, u, n, p, MaxUpdates)
  \/ \E i \in IssueIds, u \in CommentCallers, x \in CommentTexts :
        Comment(i, u, x)
  \/ \E i \in IssueIds, u \in {"u1", "u4"} : Delete(i, u)

SpecIntake == Init /\ [][NextIntake]_vars

----------------------------------------------------------------------------
(* Create with failing awaits: the handler split at issue.save(),          *)
(* User.findByIdAndUpdate and issue.populate, each of which either         *)
(* resolves or rejects; a rejection is caught and answered 500.            *)

FaultIssueIds == {"i1", "i2"}

CreateFailed == Call("create", 500, "Failed to create issue")

\* validation, the image test and new Issue({...})
CreateBegin(r, i, u, body) ==
  /\ Idle(r)
  /\ i \notin allocated /\ i \notin DOMAIN issues
  /\ \A q \in Reqs : reqs[q].issue # i
  /\ IF ~createIssueValidation(body)
     THEN /\ last' = Call("create", 400, "Validation failed")
          /\ UNCHANGED reqs
     ELSE IF body.imageUrl = Absent
     THEN /\ last' = Call("create", 400, "Issue image is required")
          /\ UNCHANGED reqs
     ELSE /\ reqs' = [reqs EXCEPT ![r] =
                        [pc |-> "create-save", user |-> u, issue |-> i,
                         orig |-> << >>, local |-> NewIssue(u, body, now)]]
          /\ UNCHANGED last
  /\ UNCHANGED <<issues, users, allocated, now, probe>>

\* await issue.save()
CreateSave(r, resolves) ==
  /\ reqs[r].pc = "create-save"
  /\ IF resolves
     THEN /\ issues' = Put(issues, reqs[r].issue, preSave(reqs[r].local, now))
          /\ reqs' = [reqs EXCEPT ![r].pc = "create-count"]
          /\ UNCHANGED last
     ELSE /\ last' = CreateFailed
          /\ reqs' = [reqs EXCEPT ![r] = IdleReq]
          /\ UNCHANGED issues
  /\ UNCHANGED <<users, allocated, now, probe>>

\* await User.findByIdAndUpdate(req.userId, {$inc: {issuesReported: 1}})
CreateCount(r, resolves) ==
  /\ reqs[r].pc = "create-count"
  /\ IF resolves
     THEN /\ users' = incReported(users, reqs[r].user, 1)
          /\ reqs' = [reqs EXCEPT ![r].pc = "create-populate"]
          /\ UNCHANGED last
     ELSE /\ last' = CreateFailed
          /\ reqs' = [reqs EXCEPT ![r] = IdleReq]
          /\ UNCHANGED users
  /\ UNCHANGED <<issues, allocated, now, probe>>

\* await issue.populate(...), then the 201
CreatePopulate(r, resolves) ==
  /\ reqs[r].pc = "create-populate"
  /\ IF resolves
     THEN /\ last' = Call("create", 201, "Issue reported successfully")
          /\ allocated' = allocated \cup {reqs[r].issue}
     ELSE /\ last' = CreateFailed
          /\ UNCHANGED allocated
  /\ reqs' = [reqs EXCEPT ![r] = IdleReq]
  /\ UNCHANGED <<issues, users, now, probe>>

NextCreateFaults ==
  \/ \E r \in Reqs, i \in FaultIssueIds, u \in Reporters, body \in CreateBodies :
        CreateBegin(r, i, u, body)
  \/ \E r \in Reqs, resolves \in BOOLEAN : CreateSave(r, resolves)
  \/ \E r \in Reqs, resolves \in BOOLEAN : CreateCount(r, resolves)
  \/ \E r \in Reqs, resolves \in BOOLEAN : CreatePopulate(r, resolves)

SpecCreateFaults == Init /\ [][NextCreateFaults]_vars

----------------------------------------------------------------------------
(* The heatmap: Issue.getHotspots and GET /issues/heatmap *)

\* $round to 3 decimal places, half to even: from 1/CoordScale degree to
\* 1/1000 degree
round3(x) ==
  LET per == CoordScale \div 1000
      q == x \div per
      r == x % per
  IN IF 2 * r < per THEN q
     ELSE IF 2 * r > per THEN q + 1
     ELSE IF q % 2 = 0 THEN q ELSE q + 1

RECURSIVE SumScores(_, _)
SumScores(iss, S) ==
  IF S = {} THEN 0
  ELSE LET i == CHOOSE j \in S : TRUE
       IN iss[i].severityScore + SumScores(iss, S \ {i})

\* the aggregation pipeline of getHotspots: $match, $group, $project
getHotspots(iss) ==
  LET matched == {i \in DOMAIN iss : iss[i].status \notin {"resolved", "rejected"}}
      id(i) == [lat |-> round3(iss[i].latitude), lng |-> round3(iss[i].longitude)]
      group(g) == {i \in matched : id(i) = g}
      avgSeverity(g) == [sum |-> SumScores(iss, group(g)),
                         count |-> Cardinality(group(g))]
  IN {[latitude |-> g.lat,
       longitude |-> g.lng,
       count |-> Cardinality(group(g)),
       intensity |-> (Cardinality(group(g)) * avgSeverity(g).sum)
                       \div avgSeverity(g).count] :
        g \in {id(i) : i \in matched}}

\* a number as a JavaScript condition
truthy(n) == n # 0

\* the data of GET /issues/heatmap
heatmapHandler(iss) ==
  LET heatmapData == {[latitude |-> spot.latitude,
                       longitude |-> spot.longitude,
                       weight |-> IF truthy(spot.intensity)
                                  THEN spot.intensity ELSE 1] :
                        spot \in getHotspots(iss)}
  IN {spot \in heatmapData : truthy(spot.latitude) /\ truthy(spot.longitude)}

Heatmap ==
  /\ probe' = [op |-> "heatmap", data |-> heatmapHandler(issues)]
  /\ UNCHANGED <<issues, users, allocated, now, last, reqs>>

HeatIssueIds == {"i1", "i2"}

\* coordinates in the cells (0, 2), (1, 2), (1.001, 2) and (1, -0) of the
\* 0.001-degree grid
HeatCoordinates == {<<3, 20004>>, <<10003, 20004>>, <<10006, 20004>>,
                    <<10003, 0 - 3>>}

HeatBodies ==
  {Body("image.jpg", "garbage", d, c[1], c[2]) :
     d \in IntakeDescriptions, c \in HeatCoordinates}

NextHeatmap ==
  \/ \E i \in HeatIssueIds, u \in Reporters, body \in HeatBodies :
        Create(i, u, body)
  \/ \E i \in HeatIssueIds, u \in PatchCallers, st \in {"resolved", "rejected"} :
        Patch(i, u, st, Absent, Absent, MaxUpdates)
  \/ Heatmap

SpecHeatmap == Init /\ [][NextHeatmap]_vars

----------------------------------------------------------------------------
(* GET /issues: filter, sort, skip, limit and the pagination block *)

\* the filter object built from the query
matches(doc, query) ==
  query.category # Absent => doc.category = query.category

\* the orders in which find(filter).sort({[sortBy]: -1}) can return the
\* matching issues: descending in the sort field, issues that are equal in it
\* in any order
sorted(iss, query) ==
  LET S == {i \in DOMAIN iss : matches(iss[i], query)}
      n == Cardinality(S)
      key(i) == IF query.sortBy = "createdAt" THEN iss[i].createdAt
                ELSE iss[i].severityScore
  IN {q \in [1..n -> S] :
        /\ \A j, k \in 1..n : j # k => q[j] # q[k]
        /\ \A j, k \in 1..n : j < k => key(q[j]) >= key(q[k])}

\* Math.ceil(total / limit)
ceilDiv(total, limit) == (total + limit - 1) \div limit

\* the response, for one order of the find
listHandler(iss, query, order) ==
  LET skip == (query.page - 1) * query.limit
      total == Cardinality({i \in DOMAIN iss : matches(iss[i], query)})
  IN [issues |-> SubSeq(order, skip + 1, Min(skip + query.limit, Len(order))),
      pagination |-> [page |-> query.page, limit |-> query.limit,
                      total |-> total,
                      pages |-> ceilDiv(total, query.limit)]]

Query(category, sortBy, page, limit) ==
  [category |-> category, sortBy |-> sortBy, page |-> page, limit |-> limit]

\* the pages a client has been sent for one filter, sort and limit while the
\* store stayed as it is
SameWalk(query) ==
  /\ probe.op = "list"
  /\ probe.store = issues
  /\ probe.category = query.category
  /\ probe.sortBy = query.sortBy
  /\ probe.limit = query.limit

List(query) ==
  /\ \E order \in sorted(issues, query) :
       LET res == listHandler(issues, query, order)
           before == IF SameWalk(query) THEN probe.responses
                     ELSE [p \in {} |-> res]
       IN probe' = [op |-> "list", store |-> issues,
                    category |-> query.category, sortBy |-> query.sortBy,
                    limit |-> query.limit,
                    responses |->
                      [p \in DOMAIN before \cup {query.page} |->
                         IF p = query.page THEN res ELSE before[p]]]
  /\ UNCHANGED <<issues, users, allocated, now, last, reqs>>

ListIssueIds == {"i1", "i2"}

ListBodies ==
  {Body("image.jpg", "garbage", ExampleDescription, 0, 0),
   Body("image.jpg", "pothole", <<"minor", "issue">>, 0, 0)}

NextList ==
  \/ Tick
  \/ \E i \in ListIssueIds, u \in Reporters, body \in ListBodies :
        Create(i, u, body)
  \/ \E c \in {Absent, "garbage"}, sortBy \in {"createdAt", "severityScore"},
        p \in 1..MaxPage, l \in 1..MaxLimit : List(Query(c, sortBy, p, l))

SpecList == Init /\ [][NextList]_vars

\* ---- GET /stats/overview ----

\* User.countDocuments with the filter of the active-citizen count, without
\* its role test
activeCitizensCount_AnyRole(us) ==
  Cardinality({u \in DOMAIN us :
                 /\ us[u].isActive
                 /\ us[u].issuesReported > 0 \/ us[u].issuesVerified > 0})

\* User.countDocuments({role: 'user', isActive: true,
\*   $or: [{issuesReported: {$gt: 0}}, {issuesVerified: {$gt: 0}}]})
activeCitizensCount(us) ==
  Cardinality({u \in DOMAIN us :
                 /\ us[u].role = "user"
                 /\ us[u].isActive
                 /\ us[u].issuesReported > 0 \/ us[u].issuesVerified > 0})

\* User.countDocuments({role: 'user', isActive: true})
totalUsersCount(us) ==
  Cardinality({u \in DOMAIN us : us[u].role = "user" /\ us[u].isActive})

\* the total and resolved facets of Issue.getStats()
getStats(iss) ==
  [total |-> Cardinality(DOMAIN iss),
   resolved |-> Cardinality({i \in DOMAIN iss : iss[i].status = "resolved"})]

\* the counts of the response data
overviewHandler(iss, us) ==
  [total |-> getStats(iss).total,
   resolved |-> getStats(iss).resolved,
   userCount |-> activeCitizensCount(us),
   activeCitizens |-> activeCitizensCount(us),
   totalUsers |-> totalUsersCount(us)]

Overview ==
  /\ probe' = [op |-> "overview", users |-> users,
               data |-> overviewHandler(issues, users)]
  /\ UNCHANGED <<issues, users, allocated, now, last, reqs>>

StatsIssueIds == {"i1", "i2"}

StatsReporters == {"u1", "u4"}

StatsVerifiers == {"u2", "u4", "u5"}

StatsBodies == {Body("image.jpg", "pothole", ExampleDescription, 0, 0)}

NextStats ==
  \/ \E i \in StatsIssueIds, u \in StatsReporters, body \in StatsBodies :
        Create(i, u, body)
  \/ \E i \in StatsIssueIds, u \in StatsVerifiers : Verify(i, u)
  \/ \E i \in StatsIssueIds, u \in {"u1", "u5"} : Delete(i, u)
  \/ Overview

SpecStats == Init /\ [][NextStats]_vars

----------------------------------------------------------------------------
(* calculateSeverity applied once, on its own, to a category and a          *)
(* description                                                             *)

RECURSIVE SeqsUpTo(_, _)
SeqsUpTo(S, n) ==
  IF n = 0 THEN {<< >>}
  ELSE LET shorter == SeqsUpTo(S, n - 1)
       IN shorter \cup {Append(d, w) : d \in shorter, w \in S}

Descriptions == SeqsUpTo(Words, MaxWords)

\* a category of the table, none, or one the table does not hold
SeverityCategories == Categories \cup {Absent, "unknown"}

CalculateSeverity(category, description) ==
  /\ probe = NoProbe
  /\ probe' = [op |-> "calculateSeverity", category |-> category,
               description |-> description, given |-> TRUE,
               result |-> calculateSeverity(category, description)]
  /\ UNCHANGED <<issues, users, allocated, now, last, reqs>>

CalculateSeverityDefault(category) ==
  /\ probe = NoProbe
  /\ probe' = [op |-> "calculateSeverity", category |-> category,
               description |-> << >>, given |-> FALSE,
               result |-> calculateSeverityDefault(category)]
  /\ UNCHANGED <<issues, users, allocated, now, last, reqs>>

\* one call: nothing is enabled once the probe holds a result
NextSeverity ==
  \/ /\ probe = NoProbe
     /\ \E c \in SeverityCategories, d \in Descriptions :
          CalculateSeverity(c, d)
  \/ /\ probe = NoProbe
     /\ \E c \in SeverityCategories : CalculateSeverityDefault(c)

SpecSeverity == Init /\ [][NextSeverity]_vars

----------------------------------------------------------------------------
(* Verification of issues by the users of the seeded database *)

\* trustScore: {min: 0, max: 100}
MaxTrustScore == 100

\* the trustScore the seed script gives a user: 100 to the admin, 80 to an
\* authority; the smallest it can draw for a regular user is 10
seedTrustScore(u) ==
  CASE RoleOf(u) = "admin" -> 100
    [] RoleOf(u) = "authority" -> 80
    [] OTHER -> 10

\* the state after the seed script has created the users, with no issues
InitSeeded ==
  /\ issues = << >>
  /\ users = [u \in Users |->
                [role |-> RoleOf(u), isActive |-> TRUE, issuesReported |-> 0,
                 issuesVerified |-> 0, trustScore |-> seedTrustScore(u)]]
  /\ allocated = {}
  /\ now = 0
  /\ last = NoCall
  /\ reqs = [r \in Reqs |-> IdleReq]
  /\ probe = NoProbe

TrustIssueIds == {"i1", "i2"}

TrustVerifiers == {"u2", "u3", "u5"}

NextTrust ==
  \/ \E i \in TrustIssueIds, u \in Reporters, body \in StatsBodies :
        Create(i, u, body)
  \/ \E i \in TrustIssueIds, u \in TrustVerifiers : Verify(i, u)

SpecTrust == InitSeeded /\ [][NextTrust]_vars

----------------------------------------------------------------------------
(* The image classification service (aiClassificationService)              *)

\* the longest string of characters tried as a confidence
MaxChars == 2

\* JavaScript values: undefined, null, a number, a string (a sequence of
\* pieces of text)
Undefined == [t |-> "undefined", s |-> << >>, n |-> 0]
JsNull == [t |-> "null", s |-> << >>, n |-> 0]
Num(n) == [t |-> "number", s |-> << >>, n |-> n]
Str(s) == [t |-> "string", s |-> s, n |-> 0]
NaN == [t |-> "NaN", s |-> << >>, n |-> 0]

\* a value in a condition
ToBoolean(v) ==
  CASE v.t = "string" -> v.s # << >>
    [] v.t = "number" -> v.n # 0
    [] OTHER -> FALSE

IsDigit(c) == c \in {"0", "5", "8"}

DigitValue(c) == CASE c = "0" -> 0 [] c = "5" -> 5 [] c = "8" -> 8

\* the value of the longest run of digits at the start of s, after acc
RECURSIVE LeadingDigits(_, _, _)
LeadingDigits(s, k, acc) ==
  IF k > Len(s) \/ ~IsDigit(s[k]) THEN acc
  ELSE LeadingDigits(s, k + 1, 10 * acc + DigitValue(s[k]))

\* parseInt: of a whole number the number, of a string an optional sign and
\* the leading digits, NaN when there is no digit, NaN of anything else
parseInt(v) ==
  CASE v.t = "number" -> v
    [] v.t = "string" ->
         LET neg == Len(v.s) > 0 /\ v.s[1] = "-"
             from == IF neg THEN 2 ELSE 1
         IN IF from > Len(v.s) \/ ~IsDigit(v.s[from]) THEN NaN
            ELSE LET m == LeadingDigits(v.s, from, 0)
                 IN Num(IF neg THEN 0 - m ELSE m)
    [] OTHER -> NaN

CIVIC_CATEGORIES ==
  {"pothole", "garbage", "streetlight", "graffiti", "road_damage",
   "water_leak", "sewage", "illegal_parking", "noise", "air_pollution",
   "encroachment", "traffic_signal", "sidewalk", "tree_hazard", "others"}

CATEGORY_DISPLAY_NAMES ==
  [c \in CIVIC_CATEGORIES |->
     CASE c = "pothole" -> "Pothole"
       [] c = "garbage" -> "Garbage/Waste"
       [] c = "streetlight" -> "Street Light Issue"
       [] c = "graffiti" -> "Graffiti/Vandalism"
       [] c = "road_damage" -> "Road Damage"
       [] c = "water_leak" -> "Water Leak"
       [] c = "sewage" -> "Sewage/Drainage"
       [] c = "illegal_parking" -> "Illegal Parking"
       [] c = "noise" -> "Noise Complaint"
       [] c = "air_pollution" -> "Air Pollution"
       [] c = "encroachment" -> "Encroachment"
       [] c = "traffic_signal" -> "Traffic Signal"
       [] c = "sidewalk" -> "Sidewalk Issue"
       [] c = "tree_hazard" -> "Tree Hazard"
       [] c = "others" -> "Others"]

getCategoryDisplayName(category) ==
  IF category \in DOMAIN CATEGORY_DISPLAY_NAMES
  THEN CATEGORY_DISPLAY_NAMES[category]
  ELSE category

getRelatedCategories(primary) ==
  CASE primary = "pothole" -> <<"road_damage", "sidewalk">>
    [] primary = "garbage" -> <<"sewage", "air_pollution">>
    [] primary = "streetlight" -> <<"traffic_signal">>
    [] primary = "road_damage" -> <<"pothole", "sidewalk">>
    [] primary = "water_leak" -> <<"sewage">>
    [] primary = "sewage" -> <<"water_leak", "garbage">>
    [] primary = "air_pollution" -> <<"garbage", "encroachment">>
    [] primary = "traffic_signal" -> <<"streetlight">>
    [] primary = "sidewalk" -> <<"road_damage", "pothole">>
    [] primary = "tree_hazard" -> <<"sidewalk", "road_damage">>
    [] primary = "graffiti" -> <<"encroachment">>
    [] primary = "illegal_parking" -> <<"encroachment">>
    [] primary = "encroachment" -> <<"illegal_parking">>
    [] primary = "others" -> <<"garbage", "road_damage", "streetlight">>
    [] OTHER -> <<"others">>

getSmartFallback(analysisTime, errorMsg) ==
  [success |-> TRUE,
   type |-> "others",
   confidence |-> 50,
   displayName |-> "Select Category",
   severity |-> "medium",
   aiDescription |->
     IF errorMsg # ""
     THEN Str(<<"AI temporarily unavailable. Please select category manually.">>)
     ELSE Str(<<"Please select the appropriate category.">>),
   alternatives |-> <<"garbage", "pothole", "road_damage", "streetlight",
                      "water_leak", "air_pollution">>,
   analysisTime |-> analysisTime,
   modelVersion |-> "fallback",
   confidenceLevel |-> "low"]

\* what a block of code comes to: a returned value or a thrown error
Returned(value) == [threw |-> FALSE, value |-> value, message |-> ""]
Threw(message) == [threw |-> TRUE, value |-> Undefined, message |-> message]

\* typeof input === 'string' ? input : (input.imageBase64 || input.imageUrl)
imageInputOf(input) ==
  CASE input.kind = "string" -> Returned(input.value)
    [] input.kind = "object" ->
         Returned(IF ToBoolean(input.imageBase64) THEN input.imageBase64
                  ELSE input.imageUrl)
    [] OTHER -> Threw("Cannot read properties of undefined")

startsWith(s, prefix) == Len(s) > 0 /\ s[1] = prefix

\* lines 65-76: the data URI and the logged size; the value is the URI
imageDataUriOf(imageInput) ==
  IF imageInput.t # "string"
  THEN Threw("imageInput.startsWith is not a function")
  ELSE IF startsWith(imageInput.s, "data:")
          /\ ~\E k \in 1..Len(imageInput.s) : imageInput.s[k] = ","
  THEN Threw("Cannot read properties of undefined (reading 'length')")
  ELSE IF ~startsWith(imageInput.s, "data:") /\ ~startsWith(imageInput.s, "http")
  THEN Returned(Str(<<"data:", "image/jpeg;base64", ",">> \o imageInput.s))
  ELSE Returned(imageInput)

\* JSON.parse(responseText), then the first {...} of the text: a text is
\* the JSON of its value ("json"), that JSON inside other words ("wrapped"),
\* or words alone ("words", "empty")
parseResponse(text) ==
  IF text.form \in {"json", "wrapped"} THEN Returned(text.value)
  ELSE Threw("Invalid AI response format")

\* lines 146-175, for a parsed result
normalize(result, analysisTime) ==
  IF result.t # "object"
  THEN IF result.t \in {"null", "undefined"}
       THEN Threw("Cannot read properties of null (reading 'category')")
       ELSE Returned(
              [success |-> TRUE, type |-> "others", confidence |-> 75,
               displayName |-> getCategoryDisplayName("others"),
               severity |-> "medium",
               aiDescription |-> Str(<<"Civic issue detected">>),
               alternatives |-> getRelatedCategories("others"),
               analysisTime |-> analysisTime,
               modelVersion |-> "groq-llama4-scout",
               confidenceLevel |-> "medium"])
  ELSE
    LET category ==
          IF result.category.t = "string" /\ Len(result.category.s) = 1
             /\ result.category.s[1] \in CIVIC_CATEGORIES
          THEN result.category.s[1] ELSE "others"
        parsed == parseInt(result.confidence)
        orDefault == IF parsed.t = "NaN" \/ parsed.n = 0 THEN 75 ELSE parsed.n
        confidence == Min(95, Max(50, orDefault))
        severity ==
          IF result.severity.t = "string" /\ Len(result.severity.s) = 1
             /\ result.severity.s[1] \in {"low", "medium", "high", "critical"}
          THEN result.severity.s[1] ELSE "medium"
        description == IF ToBoolean(result.description) THEN result.description
                       ELSE Str(<<"Civic issue detected">>)
    IN Returned(
         [success |-> TRUE, type |-> category, confidence |-> confidence,
          displayName |-> getCategoryDisplayName(category),
          severity |-> severity,
          aiDescription |-> description,
          alternatives |-> getRelatedCategories(category),
          analysisTime |-> analysisTime,
          modelVersion |-> "groq-llama4-scout",
          confidenceLevel |-> IF confidence >= 80 THEN "high"
                              ELSE IF confidence >= 60 THEN "medium"
                              ELSE "low"])

\* the try block of classifyImage: env is process.env.GROQ_API_KEY, api what
\* groq.chat.completions.create comes to
classifyTry(input, env, api, startTime, endTime) ==
  LET got == imageInputOf(input)
  IN IF got.threw THEN got
     ELSE IF ~ToBoolean(got.value) THEN Threw("No image provided")
     ELSE LET uri == imageDataUriOf(got.value)
          IN IF uri.threw THEN uri
             ELSE IF env = Absent
             THEN Returned(getSmartFallback(startTime, ""))
             ELSE IF api.rejects THEN Threw(api.message)
             ELSE LET parsed == parseResponse(api.content)
                  IN IF parsed.threw THEN parsed
                     ELSE normalize(parsed.value, endTime - startTime)

\* classifyImage with the test for an image ahead of its try
classifyImage_CheckOutsideTry(input, env, api, startTime, endTime) ==
  LET block == classifyTry(input, env, api, startTime, endTime)
  IN IF block.threw /\ block.message = "No image provided"
     THEN [raised |-> TRUE, result |-> getSmartFallback(0, "")]
     ELSE IF block.threw
     THEN [raised |-> FALSE,
           result |-> getSmartFallback(endTime - startTime, block.message)]
     ELSE [raised |-> FALSE, result |-> block.value]

\* classifyImage: the try block, and the catch that turns every error into
\* the fallback
classifyImage(input, env, api, startTime, endTime) ==
  LET block == classifyTry(input, env, api, startTime, endTime)
  IN IF block.threw
     THEN [raised |-> FALSE,
           result |-> getSmartFallback(endTime - startTime, block.message)]
     ELSE [raised |-> FALSE, result |-> block.value]

\* the inputs: a string, an object with imageBase64 and imageUrl, nothing
StringInput(v) ==
  [kind |-> "string", value |-> v, imageBase64 |-> Undefined,
   imageUrl |-> Undefined]
ObjectInput(imageBase64, imageUrl) ==
  [kind |-> "object", value |-> Undefined, imageBase64 |-> imageBase64,
   imageUrl |-> imageUrl]
NoInput ==
  [kind |-> "undefined", value |-> Undefined, imageBase64 |-> Undefined,
   imageUrl |-> Undefined]

ImageStrings ==
  {<< >>, <<"data:", "image/jpeg;base64", ",", "AAAA">>, <<"data:", "AAAA">>,
   <<"http", "://host/a.jpg">>, <<"AAAA">>}

ClassifyInputs ==
  {StringInput(Str(s)) : s \in ImageStrings}
  \cup {ObjectInput(b, u) :
          b \in {Undefined, Str(<<"AAAA">>), Num(123)},
          u \in {Undefined, Str(<<"http", "://host/a.jpg">>)}}
  \cup {NoInput}

ApiKeys == {Absent, "gsk-key"}

Chars == {"-", "0", "5", "8", "%"}

Confidences ==
  {Undefined}
  \cup {Num(n) : n \in {0 - 5, 0, 49, 50, 85, 95, 96}}
  \cup {Str(s) : s \in SeqsUpTo(Chars, MaxChars)}

\* the objects a response can be the JSON of; an absent key is undefined
ResultObjects ==
  [t : {"object"},
   category : {Undefined, Str(<<"pothole">>), Str(<<"water_leak">>),
               Str(<<"drainage">>), Num(1)},
   confidence : Confidences,
   severity : {Undefined, Str(<<"high">>), Str(<<"extreme">>)},
   description : {Undefined, Str(<<"Large pothole on the road">>)}]

ResponseTexts ==
  {[form |-> "json", value |-> v] :
     v \in ResultObjects \cup {JsNull, Num(85), Str(<<"pothole">>)}}
  \cup {[form |-> "wrapped", value |-> v] : v \in ResultObjects}
  \cup {[form |-> f, value |-> Undefined] : f \in {"words", "empty"}}

ApiOutcomes ==
  {[rejects |-> TRUE, message |-> "Connection error.",
    content |-> [form |-> "empty", value |-> Undefined]]}
  \cup {[rejects |-> FALSE, message |-> "", content |-> c] :
          c \in ResponseTexts}

ClassifyImage(input, env, api, elapsed) ==
  /\ probe = NoProbe
  /\ probe' = [op |-> "classifyImage", input |-> input, env |-> env,
               api |-> api,
               out |-> classifyImage(input, env, api, now, now + elapsed)]
  /\ UNCHANGED <<issues, users, allocated, now, last, reqs>>

\* one call: nothing is enabled once the probe holds a result
NextClassify ==
  /\ probe = NoProbe
  /\ \E input \in ClassifyInputs, env \in ApiKeys, api \in ApiOutcomes,
        elapsed \in {0, 1} : ClassifyImage(input, env, api, elapsed)

SpecClassify == Init /\ [][NextClassify]_vars

----------------------------------------------------------------------------
(* The User collection and the auth routes (auth.js, User.js)               *)

\* an email or a name is a sequence of pieces of text
PieceLength(p) ==
  CASE p = " " -> 1
    [] p = "asha" -> 4
    [] p = "Asha" -> 4
    [] p = "bo" -> 2
    [] p = "admin" -> 5
    [] p = "System Admin" -> 12
    [] p = "@" -> 1
    [] p = "x.com" -> 5
    [] p = "civicsense.com" -> 14
    [] p = "Asha K" -> 6
    [] p = "Ravi" -> 4
    [] p = "R" -> 1

RECURSIVE StringLength(_)
StringLength(s) ==
  IF s = << >> THEN 0 ELSE PieceLength(Head(s)) + StringLength(Tail(s))

\* String.prototype.toLowerCase, piece by piece
lowerCase(s) ==
  [k \in 1..Len(s) |-> IF s[k] = "Asha" THEN "asha" ELSE s[k]]

\* String.prototype.trim
RECURSIVE trim(_)
trim(s) ==
  IF s = << >> THEN s
  ELSE IF Head(s) = " " THEN trim(Tail(s))
  ELSE IF s[Len(s)] = " " THEN trim(SubSeq(s, 1, Len(s) - 1))
  ELSE s

\* /^\S+@\S+\.\S+$/ and validator's isEmail, on the addresses tried: a local
\* part, "@" and a domain, no white space
isEmail(s) ==
  /\ Len(s) = 3
  /\ s[2] = "@"
  /\ \A k \in 1..Len(s) : s[k] # " "

\* email.split('@')[0]
localPart(s) ==
  LET at == CHOOSE k \in 1..(Len(s) + 1) :
              /\ k = Len(s) + 1 \/ s[k] = "@"
              /\ \A j \in 1..(k - 1) : s[j] # "@"
  IN SubSeq(s, 1, at - 1)

MinName == 2
MaxName == 50
MinPassword == 6

Departments == {"roads", "sanitation", "water", "electricity", "general"}

Roles == {"user", "admin", "authority"}

\* lastLogin: null, as a time before every time
NoLogin == 0 - 1

\* a text or a password that was not given
NoText == << >>
NoPassword == [length |-> 0, hashed |-> FALSE]

\* new User({...}): the schema's setters and defaults; a field that is not
\* given, or given as undefined, takes its default
newUser(name, email, passwordHash, firebaseUid, role, department, avatar) ==
  [name |-> trim(name),
   email |-> trim(lowerCase(email)),
   passwordHash |-> passwordHash,
   firebaseUid |-> firebaseUid,
   role |-> IF role = Absent THEN "user" ELSE role,
   department |-> IF department = Absent THEN Null ELSE department,
   avatar |-> IF avatar = Absent THEN Null ELSE avatar,
   phone |-> Absent,
   issuesReported |-> 0,
   issuesVerified |-> 0,
   trustScore |-> 0,
   isActive |-> TRUE,
   lastLogin |-> NoLogin]

\* the schema's validators
validName(name) ==
  /\ name # NoText
  /\ StringLength(name) >= MinName
  /\ StringLength(name) <= MaxName

\* a password, before and after bcrypt
Password(length) == [length |-> length, hashed |-> FALSE]

AllPaths == {"name", "email", "passwordHash", "firebaseUid", "role",
             "department", "avatar", "phone", "lastLogin"}

\* validation on save: the validators of the modified paths, and the
\* required ones
validateUser(doc, modified) ==
  /\ doc.name # NoText
  /\ "name" \in modified => validName(doc.name)
  /\ doc.email # NoText
  /\ "email" \in modified => isEmail(doc.email)
  /\ ("passwordHash" \in modified /\ doc.passwordHash # NoPassword)
       => doc.passwordHash.length >= MinPassword
  /\ "role" \in modified => doc.role \in Roles
  /\ "department" \in modified => doc.department \in Departments \cup {Null}

\* indexesAllow with no unique index on email
indexesAllow_NoEmailIndex(us, id, doc) ==
  \A other \in DOMAIN us \ {id} :
    doc.firebaseUid # Absent => us[other].firebaseUid # doc.firebaseUid

\* the unique index on email and the sparse unique index on firebaseUid,
\* for the document id holding doc
indexesAllow(us, id, doc) ==
  \A other \in DOMAIN us \ {id} :
    /\ us[other].email # doc.email
    /\ doc.firebaseUid # Absent => us[other].firebaseUid # doc.firebaseUid

\* pre('save'): a modified password is stored as its hash
hashPassword(doc, modified) ==
  IF "passwordHash" \notin modified \/ doc.passwordHash = NoPassword THEN doc
  ELSE [doc EXCEPT !.passwordHash = [length |-> 60, hashed |-> TRUE]]

\* doc.save() of the document id with these paths modified: the store after
\* it, or the error
saveUser(us, id, doc, modified) ==
  IF validateUser(doc, modified) /\ indexesAllow(us, id, doc)
  THEN [ok |-> TRUE, users |-> Put(us, id, hashPassword(doc, modified))]
  ELSE [ok |-> FALSE, users |-> us]

\* findByEmail without its toLowerCase
findByEmail_CaseSensitive(us, email) ==
  {id \in DOMAIN us : us[id].email = email}

\* User.findByEmail: findOne({email: email.toLowerCase()})
findByEmail(us, email) ==
  {id \in DOMAIN us : us[id].email = lowerCase(email)}

\* User.findByFirebaseUid: findOne({firebaseUid: uid})
findByFirebaseUid(us, uid) ==
  {id \in DOMAIN us : us[id].firebaseUid = uid}

AccountIds == {"s1", "a1", "a2"}

\* the _id of the next document
newId(us) ==
  CHOOSE id \in AccountIds \ DOMAIN us :
    \A other \in AccountIds \ DOMAIN us :
      \/ other = id
      \/ <<id, other>> \in {<<"a1", "a2">>, <<"a1", "a3">>, <<"a2", "a3">>}

AuthResult(us, resp) == [users |-> us, resp |-> resp]

\* a response: its status code and message, and the user its token is for
AuthCall(op, code, message, user) ==
  [op |-> op, code |-> code, message |-> message, status |-> Absent,
   user |-> user]

\* registerValidation: no validation error
registerValidation(body) ==
  /\ StringLength(trim(body.name)) >= MinName
  /\ StringLength(trim(body.name)) <= MaxName
  /\ isEmail(body.email)
  /\ body.password.length >= MinPassword

\* normalizeEmail, on the addresses tried: lower case
normalizeEmail(email) == lowerCase(email)

\* registerHandler taking the role from the request body
registerHandler_BodyRole(us, body, t) ==
  IF ~registerValidation(body)
  THEN AuthResult(us, AuthCall("register", 400, "Validation failed", Absent))
  ELSE LET email == normalizeEmail(body.email)
       IN IF findByEmail(us, email) # {}
          THEN AuthResult(us, AuthCall("register", 400,
                                       "Email already registered", Absent))
          ELSE LET id == newId(us)
                   user == newUser(body.name, email, body.password,
                                   body.firebaseUid, body.role, Absent, Absent)
                   first == saveUser(us, id, user, AllPaths)
               IN IF ~first.ok
                  THEN AuthResult(us, AuthCall("register", 500,
                                               "Registration failed", Absent))
                  ELSE AuthResult(
                         [first.users EXCEPT ![id].lastLogin = t],
                         AuthCall("register", 201, "Registration successful",
                                  id))

\* POST /auth/register
registerHandler(us, body, t) ==
  IF ~registerValidation(body)
  THEN AuthResult(us, AuthCall("register", 400, "Validation failed", Absent))
  ELSE LET email == normalizeEmail(body.email)
       IN IF findByEmail(us, email) # {}
          THEN AuthResult(us, AuthCall("register", 400,
                                       "Email already registered", Absent))
          ELSE LET id == newId(us)
                   user == newUser(body.name, email, body.password,
                                   body.firebaseUid, "user", Absent, Absent)
                   first == saveUser(us, id, user, AllPaths)
               IN IF ~first.ok
                  THEN AuthResult(us, AuthCall("register", 500,
                                               "Registration failed", Absent))
                  ELSE AuthResult(
                         [first.users EXCEPT ![id].lastLogin = t],
                         AuthCall("register", 201, "Registration successful",
                                  id))

\* POST /auth/firebase
firebaseHandler(us, body, t) ==
  IF body.firebaseUid = Absent \/ body.email = NoText
  THEN AuthResult(us, AuthCall("firebase", 400,
                               "Firebase UID and email are required", Absent))
  ELSE
    LET byUid == findByFirebaseUid(us, body.firebaseUid)
        byEmail == findByEmail(us, body.email)
        id == IF byUid # {} THEN CHOOSE i \in byUid : TRUE
              ELSE IF byEmail # {} THEN CHOOSE i \in byEmail : TRUE
              ELSE newId(us)
        user ==
          IF byUid # {} THEN us[id]
          ELSE IF byEmail # {}
          THEN [us[id] EXCEPT
                  !.firebaseUid = body.firebaseUid,
                  !.avatar = IF body.avatar # Absent /\ @ = Null
                             THEN body.avatar ELSE @]
          ELSE newUser(IF body.name # NoText THEN body.name
                       ELSE localPart(body.email),
                       body.email, NoPassword, body.firebaseUid, "user",
                       Absent, body.avatar)
        modified ==
          IF byUid # {} THEN {"lastLogin"}
          ELSE IF byEmail # {} THEN {"firebaseUid", "avatar", "lastLogin"}
          ELSE AllPaths
        saved == saveUser(us, id, [user EXCEPT !.lastLogin = t], modified)
    IN IF ~saved.ok
       THEN AuthResult(us, AuthCall("firebase", 500, "Authentication failed",
                                    Absent))
       ELSE AuthResult(saved.users,
                       AuthCall("firebase", 200, "Authentication successful",
                                id))

\* PATCH /auth/me by the user of the token
updateProfileHandler(us, caller, body) ==
  LET updated ==
        [us[caller] EXCEPT
           !.name = IF body.name # NoText THEN trim(body.name) ELSE @,
           !.phone = IF body.phone # Absent THEN body.phone ELSE @,
           !.avatar = IF body.avatar # Absent THEN body.avatar ELSE @]
  IN IF body.name # NoText /\ ~validName(trim(body.name))
     THEN AuthResult(us, AuthCall("profile", 500, "Failed to update profile",
                                  Absent))
     ELSE AuthResult(Put(us, caller, updated),
                     AuthCall("profile", 200, "Profile updated", caller))

\* POST /auth/admin/create by the user of the token
adminCreateHandler(us, caller, body) ==
  IF us[caller].role # "admin"
  THEN AuthResult(us, AuthCall("adminCreate", 403,
                               "Only admins can create new admin accounts",
                               Absent))
  ELSE
    LET role == IF body.role = Absent THEN "admin" ELSE body.role
    IN IF role \notin {"admin", "authority"}
       THEN AuthResult(us, AuthCall("adminCreate", 400,
                                    "Invalid role. Must be admin or authority.",
                                    Absent))
       ELSE IF body.email = NoText
       THEN AuthResult(us, AuthCall("adminCreate", 500,
                                    "Failed to create admin account", Absent))
       ELSE IF findByEmail(us, body.email) # {}
       THEN AuthResult(us, AuthCall("adminCreate", 400,
                                    "Email already registered", Absent))
       ELSE LET id == newId(us)
                user == newUser(body.name, body.email, body.password, Absent,
                                role,
                                IF role = "authority" THEN body.department
                                ELSE Null,
                                Absent)
                saved == saveUser(us, id, user, AllPaths)
            IN IF ~saved.ok
               THEN AuthResult(us, AuthCall("adminCreate", 500,
                                            "Failed to create admin account",
                                            Absent))
               ELSE AuthResult(saved.users,
                               AuthCall("adminCreate", 201,
                                        "account created successfully", id))

\* PATCH /auth/admin/users/:id/role by the user of the token; an undefined
\* department is left out of the update or written as null, as the version
\* of the library has it (omitUndefined)
updateRoleHandler(us, caller, id, body, omitUndefined) ==
  IF us[caller].role # "admin"
  THEN AuthResult(us, AuthCall("role", 403,
                               "Only admins can change user roles", Absent))
  ELSE IF body.role \notin Roles
  THEN AuthResult(us, AuthCall("role", 400, "Invalid role", Absent))
  ELSE IF id \notin DOMAIN us
  THEN AuthResult(us, AuthCall("role", 404, "User not found", Absent))
  ELSE AuthResult(
         [us EXCEPT
            ![id].role = body.role,
            ![id].department =
              IF body.role # "authority" THEN Null
              ELSE IF body.department # Absent THEN body.department
              ELSE IF omitUndefined THEN @ ELSE Null],
         AuthCall("role", 200, "User role updated", id))

\* the admin account of the seed script
SeededAdmin ==
  [newUser(<<"System Admin">>, <<"admin", "@", "civicsense.com">>, NoPassword,
           Absent, "admin", Absent, Absent)
     EXCEPT !.passwordHash = [length |-> 60, hashed |-> TRUE]]

\* the database after the seed script: the admin, no issues
InitAuth ==
  /\ issues = << >>
  /\ users = [id \in {"s1"} |-> SeededAdmin]
  /\ allocated = {}
  /\ now = 0
  /\ last = NoCall
  /\ reqs = [r \in Reqs |-> IdleReq]
  /\ probe = NoProbe

\* the response, with the request it answers and the user of its token
WithRequest(resp, caller, request) ==
  [op |-> resp.op, code |-> resp.code, message |-> resp.message,
   status |-> resp.status, user |-> resp.user, caller |-> caller,
   request |-> request]

AuthRespond(r, caller, request) ==
  /\ users' = r.users
  /\ last' = WithRequest(r.resp, caller, request)
  /\ UNCHANGED <<issues, allocated, now, reqs, probe>>

\* a new document can still be given an _id
RoomForUser == AccountIds \ DOMAIN users # {}

Register(body) ==
  /\ RoomForUser
  /\ AuthRespond(registerHandler(users, body, now), Absent, body)

Firebase(body) ==
  /\ RoomForUser
  /\ AuthRespond(firebaseHandler(users, body, now), Absent, body)

UpdateProfile(caller, body) ==
  /\ caller \in DOMAIN users
  /\ AuthRespond(updateProfileHandler(users, caller, body), caller, body)

AdminCreate(caller, body) ==
  /\ caller \in DOMAIN users
  /\ RoomForUser
  /\ AuthRespond(adminCreateHandler(users, caller, body), caller, body)

UpdateRole(caller, id, body, omitUndefined) ==
  /\ caller \in DOMAIN users
  /\ AuthRespond(updateRoleHandler(users, caller, id, body, omitUndefined),
                 caller, body)

\* the addresses tried
Asha == <<"asha", "@", "x.com">>
AshaUpper == <<"Asha", "@", "x.com">>
AshaPadded == <<" ", "asha", "@", "x.com">>
Bo == <<"bo", "@", "x.com">>

RegisterBody(email, password, firebaseUid) ==
  [name |-> <<"Asha K">>, email |-> email, password |-> password,
   firebaseUid |-> firebaseUid, role |-> "admin"]

RegisterBodies ==
  {RegisterBody(Asha, Password(7), Absent),
   RegisterBody(AshaUpper, Password(7), "f1"),
   RegisterBody(Bo, Password(3), Absent)}

FirebaseBody(firebaseUid, email, avatar) ==
  [firebaseUid |-> firebaseUid, email |-> email, name |-> NoText,
   avatar |-> avatar]

FirebaseBodies ==
  {FirebaseBody(uid, email, "pic.png") :
     uid \in {"f1", "f2"}, email \in {Asha, Bo}}
  \cup {FirebaseBody("f2", AshaUpper, Absent),
        FirebaseBody("f1", NoText, Absent)}

ProfileBody(name, avatar) ==
  [name |-> name, phone |-> Absent, avatar |-> avatar, role |-> "admin"]

ProfileBodies == {ProfileBody(<<"Ravi">>, "new.png"), ProfileBody(<<"R">>, Absent)}

AdminCreateBody(email, role, department) ==
  [name |-> <<"Asha K">>, email |-> email, password |-> Password(7),
   role |-> role, department |-> department]

AdminCreateBodies ==
  {AdminCreateBody(Asha, "authority", Absent),
   AdminCreateBody(AshaPadded, "authority", "roads"),
   AdminCreateBody(Bo, "authority", "parks"),
   AdminCreateBody(Bo, Absent, "roads"),
   AdminCreateBody(Bo, "user", Absent)}

RoleBody(role, department) == [role |-> role, department |-> department]

RoleBodies ==
  {RoleBody("authority", Absent), RoleBody("authority", "roads"),
   RoleBody("user", "roads"), RoleBody("admin", Absent),
   RoleBody("owner", Absent)}

\* the users whose tokens the requests carry
AuthCallers == {"s1", "a1"}

NextAuth ==
  \/ Tick
  \/ \E body \in RegisterBodies : Register(body)
  \/ \E body \in FirebaseBodies : Firebase(body)
  \/ \E body \in ProfileBodies : UpdateProfile("a1", body)
  \/ \E caller \in AuthCallers, body \in AdminCreateBodies :
        AdminCreate(caller, body)
  \/ \E caller \in AuthCallers, id \in {"a1", "a3"}, body \in RoleBodies,
        omitUndefined \in BOOLEAN :
        UpdateRole(caller, id, body, omitUndefined)

SpecAuth == InitAuth /\ [][NextAuth]_vars

----------------------------------------------------------------------------
(* The creating routes of the auth API, one await at a time *)

\* a request between two awaits: its body, the document in its hands and
\* the _id that document has or will be given
AuthReq(pc, body, id, doc) ==
  [pc |-> pc, user |-> id, issue |-> Absent, orig |-> body, local |-> doc]

\* the requests that hold a document not yet inserted
Creating ==
  {r \in Reqs : reqs[r].pc # "idle" /\ reqs[r].user \notin DOMAIN users}

\* every request under way can still be given an _id
RoomForRequest ==
  Cardinality(AccountIds \ DOMAIN users) > Cardinality(Creating)

AuthAnswer(resp, caller, request) ==
  last' = WithRequest(resp, caller, request)

\* save() of a document read earlier: its modified paths are written over
\* the stored document
saveModified(us, id, doc, modified) ==
  LET written ==
        [us[id] EXCEPT
           !.firebaseUid = IF "firebaseUid" \in modified THEN doc.firebaseUid
                           ELSE @,
           !.avatar = IF "avatar" \in modified THEN doc.avatar ELSE @,
           !.lastLogin = IF "lastLogin" \in modified THEN doc.lastLogin ELSE @]
  IN IF validateUser(doc, modified) /\ indexesAllow(us, id, written)
     THEN [ok |-> TRUE, users |-> Put(us, id, written)]
     ELSE [ok |-> FALSE, users |-> us]

\* register: validation and await User.findByEmail
RegisterFind(r, body) ==
  /\ Idle(r)
  /\ RoomForRequest
  /\ IF ~registerValidation(body)
     THEN /\ AuthAnswer(AuthCall("register", 400, "Validation failed", Absent),
                        Absent, body)
          /\ UNCHANGED reqs
     ELSE IF findByEmail(users, normalizeEmail(body.email)) # {}
     THEN /\ AuthAnswer(AuthCall("register", 400, "Email already registered",
                                 Absent), Absent, body)
          /\ UNCHANGED reqs
     ELSE /\ reqs' = [reqs EXCEPT ![r] =
                        AuthReq("register:save", body, Absent,
                                newUser(body.name, normalizeEmail(body.email),
                                        body.password, body.firebaseUid,
                                        "user", Absent, Absent))]
          /\ UNCHANGED last
  /\ UNCHANGED <<issues, users, allocated, now, probe>>

\* register: the first await user.save()
RegisterSave(r) ==
  /\ reqs[r].pc = "register:save"
  /\ LET id == newId(users)
         saved == saveUser(users, id, reqs[r].local, AllPaths)
     IN IF ~saved.ok
        THEN /\ AuthAnswer(AuthCall("register", 500, "Registration failed",
                                    Absent), Absent, reqs[r].orig)
             /\ reqs' = [reqs EXCEPT ![r] = IdleReq]
             /\ UNCHANGED users
        ELSE /\ users' = saved.users
             /\ reqs' = [reqs EXCEPT ![r] =
                           AuthReq("register:login", reqs[r].orig, id,
                                   saved.users[id])]
             /\ UNCHANGED last
  /\ UNCHANGED <<issues, allocated, now, probe>>

\* register: lastLogin and the second await user.save()
RegisterLogin(r) ==
  /\ reqs[r].pc = "register:login"
  /\ LET id == reqs[r].user
         saved == saveModified(users, id,
                               [reqs[r].local EXCEPT !.lastLogin = now],
                               {"lastLogin"})
     IN IF ~saved.ok
        THEN /\ AuthAnswer(AuthCall("register", 500, "Registration failed",
                                    Absent), Absent, reqs[r].orig)
             /\ UNCHANGED users
        ELSE /\ users' = saved.users
             /\ AuthAnswer(AuthCall("register", 201, "Registration successful",
                                    id), Absent, reqs[r].orig)
  /\ reqs' = [reqs EXCEPT ![r] = IdleReq]
  /\ UNCHANGED <<issues, allocated, now, probe>>

\* firebase: the test of the body and await User.findByFirebaseUid
FirebaseFindUid(r, body) ==
  /\ Idle(r)
  /\ RoomForRequest
  /\ IF body.firebaseUid = Absent \/ body.email = NoText
     THEN /\ AuthAnswer(AuthCall("firebase", 400,
                                 "Firebase UID and email are required",
                                 Absent), Absent, body)
          /\ UNCHANGED reqs
     ELSE LET byUid == findByFirebaseUid(users, body.firebaseUid)
          IN /\ reqs' = [reqs EXCEPT ![r] =
                           IF byUid # {}
                           THEN LET id == CHOOSE i \in byUid : TRUE
                                IN AuthReq("firebase:save", body, id,
                                           users[id])
                           ELSE AuthReq("firebase:email", body, Absent, << >>)]
             /\ UNCHANGED last
  /\ UNCHANGED <<issues, users, allocated, now, probe>>

\* firebase: await User.findByEmail, and the link or the new document
FirebaseFindEmail(r) ==
  /\ reqs[r].pc = "firebase:email"
  /\ LET body == reqs[r].orig
         byEmail == findByEmail(users, body.email)
     IN reqs' = [reqs EXCEPT ![r] =
                   IF byEmail # {}
                   THEN LET id == CHOOSE i \in byEmail : TRUE
                        IN AuthReq("firebase:link", body, id,
                                   [users[id] EXCEPT
                                      !.firebaseUid = body.firebaseUid,
                                      !.avatar =
                                        IF body.avatar # Absent /\ @ = Null
                                        THEN body.avatar ELSE @])
                   ELSE AuthReq("firebase:create", body, Absent,
                                newUser(IF body.name # NoText THEN body.name
                                        ELSE localPart(body.email),
                                        body.email, NoPassword,
                                        body.firebaseUid, "user", Absent,
                                        body.avatar))]
  /\ UNCHANGED <<issues, users, allocated, now, last, probe>>

\* firebase: lastLogin and await user.save()
FirebaseSave(r) ==
  /\ reqs[r].pc \in {"firebase:save", "firebase:link", "firebase:create"}
  /\ LET doc == [reqs[r].local EXCEPT !.lastLogin = now]
         id == IF reqs[r].pc = "firebase:create" THEN newId(users)
               ELSE reqs[r].user
         saved ==
           CASE reqs[r].pc = "firebase:create" ->
                  saveUser(users, id, doc, AllPaths)
             [] reqs[r].pc = "firebase:link" ->
                  saveModified(users, id, doc,
                               {"firebaseUid", "avatar", "lastLogin"})
             [] OTHER -> saveModified(users, id, doc, {"lastLogin"})
     IN IF ~saved.ok
        THEN /\ AuthAnswer(AuthCall("firebase", 500, "Authentication failed",
                                    Absent), Absent, reqs[r].orig)
             /\ UNCHANGED users
        ELSE /\ users' = saved.users
             /\ AuthAnswer(AuthCall("firebase", 200,
                                    "Authentication successful", id),
                           Absent, reqs[r].orig)
  /\ reqs' = [reqs EXCEPT ![r] = IdleReq]
  /\ UNCHANGED <<issues, allocated, now, probe>>

\* admin create: await User.findById of the caller, and the tests of the
\* caller's role and of the role asked for
AdminCreateAuth(r, caller, body) ==
  /\ Idle(r)
  /\ RoomForRequest
  /\ caller \in DOMAIN users
  /\ LET role == IF body.role = Absent THEN "admin" ELSE body.role
     IN IF users[caller].role # "admin"
        THEN /\ AuthAnswer(AuthCall("adminCreate", 403,
                                    "Only admins can create new admin accounts",
                                    Absent), caller, body)
             /\ UNCHANGED reqs
        ELSE IF role \notin {"admin", "authority"}
        THEN /\ AuthAnswer(AuthCall("adminCreate", 400,
                                    "Invalid role. Must be admin or authority.",
                                    Absent), caller, body)
             /\ UNCHANGED reqs
        ELSE /\ reqs' = [reqs EXCEPT ![r] =
                           AuthReq("adminCreate:find", body, caller, << >>)]
             /\ UNCHANGED last
  /\ UNCHANGED <<issues, users, allocated, now, probe>>

\* admin create: await User.findByEmail
AdminCreateFind(r) ==
  /\ reqs[r].pc = "adminCreate:find"
  /\ LET body == reqs[r].orig
         caller == reqs[r].user
         role == IF body.role = Absent THEN "admin" ELSE body.role
     IN IF body.email = NoText
        THEN /\ AuthAnswer(AuthCall("adminCreate", 500,
                                    "Failed to create admin account", Absent),
                           caller, body)
             /\ reqs' = [reqs EXCEPT ![r] = IdleReq]
        ELSE IF findByEmail(users, body.email) # {}
        THEN /\ AuthAnswer(AuthCall("adminCreate", 400,
                                    "Email already registered", Absent),
                           caller, body)
             /\ reqs' = [reqs EXCEPT ![r] = IdleReq]
        ELSE /\ reqs' = [reqs EXCEPT ![r] =
                           [AuthReq("adminCreate:save", body, Absent,
                                    newUser(body.name, body.email,
                                            body.password, Absent, role,
                                            IF role = "authority"
                                            THEN body.department ELSE Null,
                                            Absent))
                              EXCEPT !.issue = caller]]
             /\ UNCHANGED last
  /\ UNCHANGED <<issues, users, allocated, now, probe>>

\* admin create: await user.save()
AdminCreateSave(r) ==
  /\ reqs[r].pc = "adminCreate:save"
  /\ LET id == newId(users)
         saved == saveUser(users, id, reqs[r].local, AllPaths)
     IN IF ~saved.ok
        THEN /\ AuthAnswer(AuthCall("adminCreate", 500,
                                    "Failed to create admin account", Absent),
                           reqs[r].issue, reqs[r].orig)
             /\ UNCHANGED users
        ELSE /\ users' = saved.users
             /\ AuthAnswer(AuthCall("adminCreate", 201,
                                    "account created successfully", id),
                           reqs[r].issue, reqs[r].orig)
  /\ reqs' = [reqs EXCEPT ![r] = IdleReq]
  /\ UNCHANGED <<issues, allocated, now, probe>>

ConcRegisterBodies ==
  {RegisterBody(Asha, Password(7), Absent),
   RegisterBody(AshaUpper, Password(7), "f1")}

ConcFirebaseBodies ==
  {FirebaseBody("f1", Asha, Absent), FirebaseBody("f2", AshaUpper, "pic.png")}

ConcAdminCreateBodies ==
  {AdminCreateBody(Asha, "authority", "roads"),
   AdminCreateBody(AshaPadded, Absent, Absent)}

NextAuthConc ==
  \/ \E r \in Reqs, body \in ConcRegisterBodies : RegisterFind(r, body)
  \/ \E r \in Reqs : RegisterSave(r)
  \/ \E r \in Reqs : RegisterLogin(r)
  \/ \E r \in Reqs, body \in ConcFirebaseBodies : FirebaseFindUid(r, body)
  \/ \E r \in Reqs : FirebaseFindEmail(r)
  \/ \E r \in Reqs : FirebaseSave(r)
  \/ \E r \in Reqs, body \in ConcAdminCreateBodies :
        AdminCreateAuth(r, "s1", body)
  \/ \E r \in Reqs : AdminCreateFind(r)
  \/ \E r \in Reqs : AdminCreateSave(r)

SpecAuthConc == InitAuth /\ [][NextAuthConc]_vars

----------------------------------------------------------------------------
(* Claims *)

Range(q) == {q[k] : k \in 1..Len(q)}

Stored == DOMAIN issues

VerifySuccess == Call("verify", 200, "Issue verified successfully")
VerifyOwnIssue == Call("verify", 400, "You cannot verify your own issue")
VerifyAgain == Call("verify", 400, "You have already verified this issue")

\* C1: after any sequence of verify calls, successful or rejected, each run
\* to completion, the stored verifications counter of every issue equals the
\* number of entries of its verifiedBy.
C1_VerificationsIsLength ==
  \A i \in Stored : issues[i].verifications = Len(issues[i].verifiedBy)

\* C1 witness: four users have verified an issue and a further call was
\* rejected.
C1_Witness ==
  /\ last.op = "verify" /\ last.code = 400
  /\ \E i \in Stored : issues[i].verifications = 4

\* C2: in every reachable state no issue's verifiedBy holds its reporter, and
\* a verify call by the reporter returns an error and changes neither the
\* issues nor the users.
C2_ReporterNeverVerifies ==
  \A i \in Stored :
    /\ issues[i].reportedBy \notin Range(issues[i].verifiedBy)
    /\ LET r == verifyHandler(issues, users, i, issues[i].reportedBy, now)
       IN /\ r.resp.code = 400
          /\ r.issues = issues
          /\ r.users = users

\* C2 witness: the reporter's verify call on an issue others have verified
\* has just been rejected.
C2_Witness ==
  /\ last = VerifyOwnIssue
  /\ \E i \in Stored : Len(issues[i].verifiedBy) >= 1

\* C3: a verify call by a user already in verifiedBy is rejected as a
\* duplicate verification, and leaves the issue (verifiedBy, verifications,
\* isAuthentic, status, timeline) and the users (issuesVerified, trustScore)
\* unchanged.
C3_SecondVerifyRejected ==
  \A i \in Stored : \A u \in Range(issues[i].verifiedBy) :
    LET r == verifyHandler(issues, users, i, u, now)
    IN /\ r.resp = VerifyAgain
       /\ r.issues = issues
       /\ r.users = users

\* C3 witness: a user who is not the latest verifier has just been rejected
\* for verifying again.
C3_Witness ==
  /\ last = VerifyAgain
  /\ \E i \in Stored : Len(issues[i].verifiedBy) >= 2

C5_OneEntryAtThird ==
  \A i \in Stored : \A u \in Users :
    (u # issues[i].reportedBy /\ u \notin Range(issues[i].verifiedBy)) =>
      LET r == verifyHandler(issues, users, i, u, now)
          d == issues[i]
          e == r.issues[i]
      IN /\ r.resp = VerifySuccess
         /\ Len(e.verifiedBy) = Len(d.verifiedBy) + 1
         /\ IF Len(e.verifiedBy) = 3
            THEN /\ e.status = "verified"
                 /\ Len(e.timeline) = Len(d.timeline) + 1
                 /\ SubSeq(e.timeline, 1, Len(d.timeline)) = d.timeline
                 /\ e.timeline[Len(e.timeline)].status = "verified"
            ELSE /\ e.status = d.status
                 /\ e.timeline = d.timeline

\* C5 witness: after four verifications of a fresh issue the timeline holds
\* the creation entry and one 'verified' entry.
C5_Witness ==
  /\ last = VerifySuccess
  /\ \E i \in Stored :
       /\ Len(issues[i].verifiedBy) = 4
       /\ Len(issues[i].timeline) = 2
       /\ issues[i].timeline[2].status = "verified"
       /\ issues[i].status = "verified"

----------------------------------------------------------------------------
(* Concurrent verify requests *)

Duplicates(q) == \E j, k \in 1..Len(q) : j # k /\ q[j] = q[k]

CommunityEntries(doc) ==
  {k \in 1..Len(doc.timeline) : doc.timeline[k].note = CommunityNote}

\* C6: under any interleaving of verify requests on one issue, the stored
\* verifiedBy holds each user at most once and the stored verifications
\* equals its length.
C6_ConcurrentVerifyConsistent ==
  \A i \in Stored :
    /\ ~Duplicates(issues[i].verifiedBy)
    /\ issues[i].verifications = Len(issues[i].verifiedBy)

\* C7: under any interleaving of verify requests on one issue, the timeline
\* holds at most one community 'verified' entry, and exactly one once the
\* issue is authentic.
C7_ConcurrentVerifiedOnce ==
  \A i \in Stored :
    /\ Cardinality(CommunityEntries(issues[i])) <= 1
    /\ issues[i].isAuthentic => Cardinality(CommunityEntries(issues[i])) = 1

----------------------------------------------------------------------------
(* Status updates *)

Authorities == {u \in Users : requireAuthority(u)}

LastEntry(doc) == doc.timeline[Len(doc.timeline)]

\* the issue after PATCH /issues/:id, and after POST /issues/:id/resolve
Patched(i, u, status, assignedTo, note) ==
  patchHandler(issues, users, i, u, status, assignedTo, note, now)

Resolved(i, u, notes, proofImage) ==
  resolveHandler(issues, users, i, u, notes, proofImage, now)

\* one entry with the given status is appended, stamped no earlier than the
\* entry before it, and the status is set
AppendsOne(d, e, status) ==
  /\ e.status = status
  /\ Len(e.timeline) = Len(d.timeline) + 1
  /\ SubSeq(e.timeline, 1, Len(d.timeline)) = d.timeline
  /\ LastEntry(e).status = status
  /\ LastEntry(e).timestamp >= LastEntry(d).timestamp

\* C8: every accepted status transition, a PATCH answered 200 that carried a
\* status other than the issue's, or a resolve answered 200, appends exactly
\* one timeline entry, whose status is the new status, now the issue's, and
\* whose timestamp is at least that of the previous last entry.  (A step that
\* leaves the clock alone is a handler's, and last' is that handler's call.)
C8_TransitionAppendsOne ==
  [][\A i \in Stored :
       /\ ( /\ now' = now
            /\ last'.op = "patch" /\ last'.code = 200
            /\ last'.status \notin {Absent, issues[i].status} )
          => /\ i \in DOMAIN issues'
             /\ AppendsOne(issues[i], issues'[i], last'.status)
       /\ ( /\ now' = now
            /\ last'.op = "resolve" /\ last'.code = 200 )
          => /\ i \in DOMAIN issues'
             /\ AppendsOne(issues[i], issues'[i], "resolved")]_vars

\* C8 witness: an authority has moved an issue to in_progress at a later
\* time than its creation.
C8_Witness ==
  /\ last = PatchCall(200, "Issue updated", "in_progress")
  /\ \E i \in Stored :
       /\ Len(issues[i].timeline) = 2
       /\ issues[i].status = "in_progress"
       /\ issues[i].timeline[2].status = "in_progress"
       /\ issues[i].timeline[2].timestamp > issues[i].timeline[1].timestamp

\* C9: every step of every handler on a stored issue leaves the timeline it
\* found as a prefix of the timeline it leaves.
C9_TimelineAppendOnly ==
  [][\A i \in Stored \cap DOMAIN issues' :
       IsPrefix(issues[i].timeline, issues'[i].timeline)]_vars

\* C9 witness: a timeline appended to by create, by a status update and by
\* the third verification, which a fourth verification then left as it was.
C9_Witness ==
  /\ last = VerifySuccess
  /\ \E i \in Stored :
       /\ Len(issues[i].verifiedBy) = 4
       /\ Len(issues[i].timeline) = 3
       /\ issues[i].timeline[1].status = "pending"
       /\ issues[i].timeline[2].status \in {"in_progress", "resolved"}
       /\ issues[i].timeline[3].note = CommunityNote

\* C10 as claimed: every PATCH by an authority or admin that carries a status
\* of the enum, and every resolve, appends a timeline entry.
C10_EveryCallAppends ==
  \A i \in Stored : \A u \in Authorities :
    /\ \A st \in StatusEnum :
         Len(Patched(i, u, st, Absent, Absent).issues[i].timeline)
           = Len(issues[i].timeline) + 1
    /\ Len(Resolved(i, u, Absent, Absent).issues[i].timeline)
         = Len(issues[i].timeline) + 1

\* C10 amended: every resolve appends a 'resolved' entry, also on an issue
\* that is resolved already; a PATCH carrying a status of the enum other
\* than the current status appends an entry; a PATCH carrying the current
\* status appends nothing and leaves status and timeline as they are.
C10_AppendsUnlessSameStatusPatch ==
  \A i \in Stored : \A u \in Authorities :
    /\ \A st \in StatusEnum : \A a \in {Absent, Null, "u4"} :
         LET r == Patched(i, u, st, a, Absent)
         IN /\ r.resp.code = 200
            /\ IF st = issues[i].status
               THEN /\ r.issues[i].timeline = issues[i].timeline
                    /\ r.issues[i].status = issues[i].status
               ELSE /\ Len(r.issues[i].timeline) = Len(issues[i].timeline) + 1
                    /\ LastEntry(r.issues[i]).status = st
    /\ LET r == Resolved(i, u, Absent, Absent)
       IN /\ r.resp.code = 200
          /\ Len(r.issues[i].timeline) = Len(issues[i].timeline) + 1
          /\ LastEntry(r.issues[i]).status = "resolved"

\* C10 witness: an issue resolved twice, the second resolve having appended
\* a second 'resolved' entry, on which a PATCH carrying 'resolved' was then
\* accepted and appended nothing.
C10_Witness ==
  /\ last = PatchCall(200, "Issue updated", "resolved")
  /\ \E i \in Stored :
       /\ Len(issues[i].timeline) = 3
       /\ issues[i].timeline[2].status = "resolved"
       /\ issues[i].timeline[3].status = "resolved"
       /\ issues[i].timeline[3].updatedBy = "u5"

----------------------------------------------------------------------------
(* Severity scoring *)

Scored == probe.op = "calculateSeverity"

\* a keyword of the class is a substring of the lower-cased description
Present(description, class) ==
  \E keyword \in severityKeywords[class] :
    includes(toLowerCase(description), keyword)

\* C12: for every category, known, unknown or missing, and every description,
\* calculateSeverity returns a score within 1..10 and the level that is the
\* band of that score: critical for 9-10, high for 7-8, medium for 4-6, low
\* for 1-3.
C12_ScoreInRangeLevelIsBand ==
  Scored =>
    LET score == probe.result.severityScore
        level == probe.result.severity
    IN /\ score \in 1..10
       /\ level = "critical" <=> score \in 9..10
       /\ level = "high" <=> score \in 7..8
       /\ level = "medium" <=> score \in 4..6
       /\ level = "low" <=> score \in 1..3

\* C12 witness: a category the table does not hold, with a critical keyword
\* in the description, scored 7 and so levelled high.
C12_Witness ==
  /\ Scored
  /\ probe.category = "unknown"
  /\ Present(probe.description, "critical")
  /\ probe.result = [severity |-> "high", severityScore |-> 7]

----------------------------------------------------------------------------
(* Creation *)

\* C11: in every state reachable through create, verify, PATCH, resolve and
\* comment, each stored issue's assignedDepartment is the department the
\* category-to-department table gives for its stored category, and no step
\* changes the category or the assignedDepartment of a stored issue.
C11_DepartmentFollowsCategory ==
  /\ [](\A i \in Stored :
          /\ issues[i].category \in Categories
          /\ issues[i].assignedDepartment =
               categoryToDepartment[issues[i].category])
  /\ [][\A i \in Stored \cap DOMAIN issues' :
          /\ issues'[i].category = issues[i].category
          /\ issues'[i].assignedDepartment = issues[i].assignedDepartment]_vars

\* C11 witness: a water_leakage issue, routed to water, that has since been
\* verified and resolved.
C11_Witness ==
  /\ last.op = "resolve" /\ last.code = 200
  /\ \E i \in Stored :
       /\ issues[i].category = "water_leakage"
       /\ issues[i].assignedDepartment = "water"
       /\ Len(issues[i].verifiedBy) >= 1
       /\ issues[i].status = "resolved"

\* C15: creation is all-or-nothing.  With no create request in flight, the
\* stored issues are exactly those whose request was answered 201 (an error
\* response leaves no issue behind), and each reporter's issuesReported is
\* the number of their requests answered 201 (an error response leaves the
\* counter alone, a stored issue has been counted).
C15_CreateAllOrNothing ==
  (\A r \in Reqs : Idle(r))
  => /\ DOMAIN issues = allocated
     /\ \A u \in Reporters :
          users[u].issuesReported =
            Cardinality({i \in allocated : issues[i].reportedBy = u})

\* C14: a POST /issues answered 201 stores an issue with status 'pending', a
\* timeline of exactly one entry, with status 'pending' and the reporter as
\* its actor, verifications 0, an empty verifiedBy and isAuthentic false,
\* with the severity and the department computed from its category and
\* description, and adds exactly 1 to the reporter's issuesReported, leaving
\* every other counter as it was.
C14_CreateStoresPendingIssue ==
  [][\A i \in IssueIds :
       (i \notin DOMAIN issues /\ i \in DOMAIN issues')
       => LET doc == issues'[i]
              u == doc.reportedBy
          IN /\ last' = Call("create", 201, "Issue reported successfully")
             /\ doc.status = "pending"
             /\ Len(doc.timeline) = 1
             /\ doc.timeline[1].status = "pending"
             /\ doc.timeline[1].updatedBy = u
             /\ doc.verifications = 0
             /\ doc.verifiedBy = << >>
             /\ doc.isAuthentic = FALSE
             /\ [severity |-> doc.severity, severityScore |-> doc.severityScore]
                  = calculateSeverity(doc.category, doc.description)
             /\ doc.assignedDepartment = categoryToDepartment[doc.category]
             /\ users'[u].issuesReported = users[u].issuesReported + 1
             /\ users' = [users EXCEPT ![u].issuesReported = @ + 1]]_vars

\* C14 witness: the pothole report "Large dangerous pothole causing
\* accidents" stored as critical and routed to roads, the reporter's first.
C14_Witness ==
  /\ last = Call("create", 201, "Issue reported successfully")
  /\ \E i \in Stored :
       /\ issues[i].category = "pothole"
       /\ issues[i].description = ExampleDescription
       /\ issues[i].severity = "critical"
       /\ issues[i].severityScore = 10
       /\ issues[i].assignedDepartment = "roads"
       /\ issues[i].status = "pending"
       /\ Len(issues[i].timeline) = 1
       /\ users[issues[i].reportedBy].issuesReported = 1

----------------------------------------------------------------------------
(* Resolution and deletion *)

ResolvedEntries(doc) ==
  {k \in 1..Len(doc.timeline) : doc.timeline[k].status = "resolved"}

LastOf(S) == CHOOSE k \in S : \A j \in S : j <= k

\* C16: in every reachable state an issue's resolution has resolvedAt and
\* resolvedBy set if and only if its timeline holds a 'resolved' entry, and
\* then they are the time and the actor of the latest such entry, whether it
\* came from POST /issues/:id/resolve or from a PATCH with status 'resolved'.
C16_ResolutionIffResolvedEntry ==
  \A i \in Stored :
    LET doc == issues[i]
        R == ResolvedEntries(doc)
    IN /\ (doc.resolution.resolvedAt # NoTime) <=> (R # {})
       /\ (doc.resolution.resolvedBy # Absent) <=> (R # {})
       /\ R # {} =>
            /\ doc.resolution.resolvedBy = doc.timeline[LastOf(R)].updatedBy
            /\ doc.resolution.resolvedAt = doc.timeline[LastOf(R)].timestamp

\* C16 witness: an issue moved to 'resolved' by a PATCH of the authority u4,
\* after the clock has advanced, with u4 recorded as resolvedBy.
C16_Witness ==
  /\ last = PatchCall(200, "Issue updated", "resolved")
  /\ \E i \in Stored :
       /\ issues[i].status = "resolved"
       /\ issues[i].resolution.resolvedBy = "u4"
       /\ issues[i].resolution.resolvedAt = 1
       /\ issues[i].resolution.proofImage = Absent
       /\ ResolvedEntries(issues[i]) = {2}

\* C17: DELETE /issues/:id removes the issue exactly when the caller is its
\* reporter or has role admin; for every other caller, role authority
\* included, it answers 403 and leaves the issues and every user counter as
\* they were.
C17_DeleteOnlyOwnerOrAdmin ==
  \A i \in Stored : \A u \in Users :
    LET r == deleteHandler(issues, users, i, u)
        allowed == u = issues[i].reportedBy \/ users[u].role = "admin"
    IN IF allowed
       THEN /\ r.resp.code = 200
            /\ i \notin DOMAIN r.issues
       ELSE /\ r.resp.code = 403
            /\ r.issues = issues
            /\ r.users = users

\* C17 witness: the authority u4 was refused the deletion of an issue that
\* it does not own, which is still stored, verified and counted.
C17_Witness ==
  /\ last = Call("delete", 403, "Not authorized to delete this issue")
  /\ \E i \in Stored :
       /\ issues[i].reportedBy = "u1"
       /\ Len(issues[i].verifiedBy) >= 1
       /\ users["u1"].issuesReported = 1

----------------------------------------------------------------------------
(* Read-only requests *)

\* the issues the heatmap is about, and the grid cell of each
OpenIssues == {i \in Stored : issues[i].status \notin {"resolved", "rejected"}}

Cell(i) == <<round3(issues[i].latitude), round3(issues[i].longitude)>>

InCell(c) == {i \in OpenIssues : Cell(i) = c}

\* C18: the heatmap response holds exactly one point for each grid cell that
\* holds an issue neither resolved nor rejected, cells whose rounded latitude
\* or longitude is 0 included, and no other point, and the weight of a point
\* is count x average severityScore of its cell, the sum of the scores.
C18_HeatmapOnePointPerCell ==
  LET data == heatmapHandler(issues)
      cells == {Cell(i) : i \in OpenIssues}
  IN /\ \A c \in cells :
          /\ Cardinality({p \in data : <<p.latitude, p.longitude>> = c}) = 1
          /\ \A p \in data :
               <<p.latitude, p.longitude>> = c
               => p.weight = SumScores(issues, InCell(c))
     /\ \A p \in data : <<p.latitude, p.longitude>> \in cells

Listed == probe.op = "list"

\* the issues of the store the pages were read from that match their filter
Matching ==
  {i \in DOMAIN probe.store :
     probe.category # Absent => probe.store[i].category = probe.category}

\* C19: for page p >= 1 and limit L >= 1 over N matching issues the response
\* holds exactly min(L, max(0, N - (p-1)*L)) issues, total = N and pages =
\* ceil(N / L); and pages 1..pages, read from an unchanged store, together
\* hold every matching issue exactly once.
C19_PagesPartitionTheMatches ==
  Listed =>
    LET N == Cardinality(Matching)
        L == probe.limit
        got == probe.responses
        pages == IF N % L = 0 THEN N \div L ELSE N \div L + 1
        rest(p) == IF N - (p - 1) * L > 0 THEN N - (p - 1) * L ELSE 0
    IN /\ \A p \in DOMAIN got :
            /\ Len(got[p].issues) = (IF L < rest(p) THEN L ELSE rest(p))
            /\ got[p].pagination.total = N
            /\ got[p].pagination.pages = pages
       /\ (1..pages) \subseteq DOMAIN got =>
            \A i \in Matching :
              Cardinality({<<p, k>> \in (1..pages) \X (1..L) :
                             k <= Len(got[p].issues) /\ got[p].issues[k] = i}) = 1

Overviewed == probe.op = "overview"

\* the users that had reported or verified at least one issue when the
\* overview was read
Contributors ==
  {u \in DOMAIN probe.users :
     probe.users[u].issuesReported >= 1 \/ probe.users[u].issuesVerified >= 1}

\* C20 as stated: the active-citizen count of GET /stats/overview is the
\* number of users of any role with issuesReported >= 1 or issuesVerified >= 1.
C20_ActiveCitizensAnyRole ==
  Overviewed => probe.data.activeCitizens = Cardinality(Contributors)

\* C20: the active-citizen count of GET /stats/overview is the number of
\* active users whose role is 'user' with issuesReported >= 1 or
\* issuesVerified >= 1; authorities and admins are not counted.
C20_ActiveCitizensAreRoleUser ==
  Overviewed =>
    probe.data.activeCitizens =
      Cardinality({u \in Contributors :
                     probe.users[u].role = "user" /\ probe.users[u].isActive})

\* an overview read after a citizen and an authority have both contributed
C20_Witness ==
  /\ Overviewed
  /\ \E u \in Contributors : probe.users[u].role = "user"
  /\ \E u \in Contributors : probe.users[u].role = "authority"
  /\ probe.data.activeCitizens >= 1

----------------------------------------------------------------------------
(* Trust score *)

\* C22: every user's trustScore stays within 0..100 after any sequence of
\* successful verify calls by that user, also for a user whose trustScore is
\* already 100.
C22_TrustScoreWithinRange ==
  \A u \in Users :
    users[u].trustScore >= 0 /\ users[u].trustScore <= MaxTrustScore

----------------------------------------------------------------------------
(* Status and timeline *)

\* C25: in every state reachable through create, verify, PATCH and resolve,
\* the status of each issue is the status of the last entry of its timeline.
C25_StatusIsLastEntry ==
  \A i \in Stored :
    /\ Len(issues[i].timeline) > 0
    /\ issues[i].status = issues[i].timeline[Len(issues[i].timeline)].status

\* an issue that an authority moved on and the community then verified
C25_Witness ==
  \E i \in Stored :
    /\ Len(issues[i].timeline) >= 3
    /\ issues[i].status = "verified"
    /\ issues[i].timeline[2].status # "verified"

TerminalStatuses == {"resolved", "rejected", "duplicate"}

\* C26: a verify call never changes the status of an issue whose status is
\* resolved, rejected or duplicate.
C26_VerifyKeepsTerminalStatus ==
  [][\A i \in Stored :
       (/\ issues[i].status \in TerminalStatuses
        /\ last' = VerifySuccess
        /\ i \in DOMAIN issues'
        /\ issues'[i].verifiedBy # issues[i].verifiedBy)
       => issues'[i].status = issues[i].status]_vars

----------------------------------------------------------------------------
(* Reported-issue counter *)

\* C27: after any sequence of successful creations and deletions, by the
\* reporter or by an admin, every user's issuesReported is the number of
\* stored issues whose reportedBy is that user.
C27_ReportedCountsStoredIssues ==
  \A u \in Users :
    users[u].issuesReported =
      Cardinality({i \in Stored : issues[i].reportedBy = u})

----------------------------------------------------------------------------
(* Image classification *)

Classified == probe.op = "classifyImage"

\* the image the call was given, if it was given one
GivenImage ==
  CASE probe.input.kind = "string" -> probe.input.value
    [] probe.input.kind = "object" ->
         IF probe.input.imageBase64 # Undefined THEN probe.input.imageBase64
         ELSE probe.input.imageUrl
    [] OTHER -> Undefined

\* the failures the claim lists: no image, no API key, an API error, a
\* response that is not JSON
ListedFailure ==
  \/ GivenImage \in {Undefined, Str(<< >>)}
  \/ probe.env = Absent
  \/ probe.api.rejects
  \/ probe.api.content.form \in {"words", "empty"}

\* the call went through: a usable image, a key, and a JSON object for an
\* answer
Answered ==
  /\ GivenImage.t = "string"
  /\ GivenImage.s \in ImageStrings \ {<< >>, <<"data:", "AAAA">>}
  /\ probe.env # Absent
  /\ ~probe.api.rejects
  /\ probe.api.content.form \in {"json", "wrapped"}
  /\ probe.api.content.value.t = "object"

IsFallback(r) ==
  r.type = "others" /\ r.confidence = 50 /\ r.modelVersion = "fallback"

\* C21: classifyImage never raises; on a failure or without credentials it
\* returns the fallback with category 'others' and confidence 50; otherwise
\* the category is one of the classifier's list and the confidence is in
\* 50..95, and a listed category that the API answered is the one returned.
C21_ClassifyAlwaysReturns ==
  Classified =>
    LET r == probe.out.result
    IN /\ ~probe.out.raised
       /\ ListedFailure => IsFallback(r)
       /\ r.type \in CIVIC_CATEGORIES
       /\ r.confidence >= 50 /\ r.confidence <= 95
       /\ Answered =>
            /\ r.modelVersion = "groq-llama4-scout"
            /\ \A c \in CIVIC_CATEGORIES :
                 probe.api.content.value.category = Str(<<c>>) => r.type = c

\* an answer with a listed category and a confidence above the range
C21_Witness ==
  /\ Classified
  /\ Answered
  /\ probe.api.content.value.category = Str(<<"pothole">>)
  /\ probe.api.content.value.confidence = Num(96)
  /\ probe.out.result.type = "pothole"
  /\ probe.out.result.confidence = 95

----------------------------------------------------------------------------
(* Accounts *)

\* a step that is one call of the auth API, answered
ApiStep == now' = now /\ <<users, last>>' # <<users, last>>

\* C24: in every state reachable through register, firebase login, admin
\* create, role update and profile update, a user has a non-null department
\* if and only if the user's role is authority.
C24_DepartmentIffAuthority ==
  \A id \in DOMAIN users :
    users[id].department # Null <=> users[id].role = "authority"

\* C28: a call whose caller has the role 'user', or carries no token,
\* changes no user's role and creates no user with another role than
\* 'user'; admin create and role update answer it 403 and change nothing.
C28_UserCallersKeepRoles ==
  [][(/\ ApiStep
      /\ last'.caller # Absent => users[last'.caller].role = "user")
     => /\ \A id \in DOMAIN users :
             id \in DOMAIN users' /\ users'[id].role = users[id].role
        /\ \A id \in DOMAIN users' \ DOMAIN users : users'[id].role = "user"
        /\ last'.op \in {"adminCreate", "role"}
             => last'.code = 403 /\ users' = users]_vars

\* a registration that asked for the role admin and got the role user
C28_Witness ==
  /\ last.op = "register"
  /\ last.code = 201
  /\ last.request.role = "admin"
  /\ users[last.user].role = "user"

FirebaseStep == ApiStep /\ last'.op = "firebase"

\* the users a firebase request matches, by its firebaseUid or by its email
\* whatever its case
FirebaseMatches(us, request) ==
  {id \in DOMAIN us :
     \/ us[id].firebaseUid = request.firebaseUid
     \/ us[id].email = lowerCase(request.email)}

SameLogin(a, b) == a.firebaseUid = b.firebaseUid /\ a.email = b.email

\* C29: a POST /auth/firebase call (with both fields) whose firebaseUid or
\* email matches an existing user returns a token for such a user and
\* creates no user; repeating a call with the same firebaseUid and email
\* returns the same user's token and leaves the set of users and each
\* user's email, role and firebaseUid as they were.
C29_FirebaseFindOrCreate ==
  [][FirebaseStep =>
       LET request == last'.request
       IN /\ (/\ request.firebaseUid # Absent
              /\ request.email # NoText
              /\ FirebaseMatches(users, request) # {})
             => /\ last'.code = 200
                /\ last'.user \in FirebaseMatches(users, request)
                /\ DOMAIN users' = DOMAIN users
          /\ (/\ last.op = "firebase"
              /\ last.code = 200
              /\ SameLogin(last.request, request))
             => /\ last'.code = 200
                /\ last'.user = last.user
                /\ DOMAIN users' = DOMAIN users
                /\ \A id \in DOMAIN users :
                     /\ users'[id].email = users[id].email
                     /\ users'[id].role = users[id].role
                     /\ users'[id].firebaseUid = users[id].firebaseUid]_vars

\* a later firebase login of a user who registered with a password
C29_Witness ==
  /\ last.op = "firebase"
  /\ last.code = 200
  /\ users[last.user].passwordHash # NoPassword
  /\ users[last.user].firebaseUid = last.request.firebaseUid
  /\ users[last.user].email = lowerCase(last.request.email)
  /\ users[last.user].lastLogin = MaxTime
  /\ Cardinality(DOMAIN users) = 2

\* C30: once a user has a firebaseUid, no POST /auth/firebase call changes
\* it.
C30_FirebaseUidIsKept ==
  [][FirebaseStep =>
       \A id \in DOMAIN users :
         users[id].firebaseUid # Absent
           => users'[id].firebaseUid = users[id].firebaseUid]_vars

\* the steps of register and of admin create that follow the first one
CreatingPcs == {"register:save", "register:login", "adminCreate:find",
                "adminCreate:save"}

====
